---- MODULE Spec2Model ----
(***************************************************************************)
(* Model of the ytt backend: transcript segmentation (tools/video_tools.py *)
(* and utils/helpers.py), per-segment insight extraction                   *)
(* (agents/insight_extractor.py), the pipeline that drives them            *)
(* (pipeline/orchestrator.py) and the analysis tools text_splitter and     *)
(* process_chunks_parallel (tools/analysis_tools.py), and the job server  *)
(* with its progress streams and stdout capture (main.py).                 *)
(*                                                                         *)
(* Times.  Snippet times and total_duration are whole seconds.  The code   *)
(* computes segment_duration = total_duration / num_segments and the       *)
(* window bounds i * segment_duration in floating point; here they are     *)
(* exact rationals [num, den] (den > 0), so IEEE rounding of the products  *)
(* is not represented.                                                     *)
(*                                                                         *)
(* Text.  A text is a sequence of characters.  The character "#" stands    *)
(* for a run of BlockWidth filler characters, so that a segment can exceed *)
(* the 40000-token threshold of the extractor; StrLen is Python's len().   *)
(***************************************************************************)
EXTENDS Integers, Sequences, FiniteSets, TLC

\* ------------------------------------------------------------------ bounds
MaxSnippets == 2        \* longest snippet list drawn as an input
MaxStart    == 1        \* latest snippet start (seconds)
MaxDur      == 1        \* longest snippet duration (seconds)
MaxDuration == 2        \* largest total_duration passed to make_segments
MaxSegs     == 3        \* largest num_segments passed to make_segments
BlockWidth  == 160004   \* number of characters the filler "#" stands for
MaxPipeSegs == 4        \* largest num_segments the video-processor agent passes
MaxSteps    == 2        \* most tool calls of one video-processor agent run
MaxNumber   == 7        \* largest segment_number passed to the extractor directly
MaxTranscript == 1      \* longest transcript the transcript source holds
MaxContent  == 5        \* longest content (in characters of the model) passed to text_splitter
MaxChunks   == 3        \* longest chunk list passed to process_chunks_parallel
MaxItems    == 11       \* most items the model answers in one list of a ChunkAnalysis
MaxSaved    == 3        \* most segment analyses in a result passed to extract_structured_insights
MaxToolChunks == 6      \* longest chunk list the insight agent passes to process_chunks_parallel
MaxJobs     == 2        \* most jobs submitted to the server
MaxLines    == 1        \* most progress lines one pipeline run prints

NoValue == [none |-> "unassigned"]   \* a variable that has not been assigned yet
None    == [none |-> "None"]         \* Python's None

\* ------------------------------------------------------------------- text
Texts == {<<"a">>, <<"#">>}

CharWidth(c) == IF c = "#" THEN BlockWidth ELSE 1

RECURSIVE StrLen(_)
StrLen(s) == IF s = <<>> THEN 0 ELSE CharWidth(Head(s)) + StrLen(Tail(s))

\* " ".join(list)
RECURSIVE Join_mut_nospace(_)
Join_mut_nospace(list) ==
    IF list = <<>> THEN <<>> ELSE list[1] \o Join_mut_nospace(Tail(list))

RECURSIVE Join(_)
Join(list) ==
    IF list = <<>> THEN <<>>
    ELSE IF Len(list) = 1 THEN list[1]
    ELSE list[1] \o <<" ">> \o Join(Tail(list))

\* ------------------------------------------------------------- rationals
Rat(a, b)       == [num |-> a, den |-> b]
RatDiv(a, b)    == Rat(a, b)                      \* a / b, b > 0
RatMulInt(i, q) == Rat(i * q.num, q.den)          \* i * q
RatEq(p, q)     == p.num * q.den = q.num * p.den
IntLtRat(x, q)  == x * q.den < q.num              \* x < q
IntGtRat(x, q)  == x * q.den > q.num              \* x > q

\* ---------------------------------------------------------------- inputs
Snippet(t, s, d) == [text |-> t, start |-> s, duration |-> d, end |-> s + d]

SnippetSet == {Snippet(t, s, d) : t \in Texts, s \in 0..MaxStart, d \in 0..MaxDur}

\* the transcript source lists snippets in the order of their start times
\* (starts may repeat, intervals may overlap)
InStartOrder(l) == \A k \in 1..(Len(l) - 1) : l[k].start <= l[k + 1].start

SnippetLists ==
    {l \in UNION {[1..k -> SnippetSet] : k \in 0..MaxSnippets} : InStartOrder(l)}

\* what the transcript source can hold for a video: a list of raw snippets
\* (text, start, duration), or nothing (the fetch raises)
Unavailable == [available |-> FALSE, snippets |-> <<>>]

RawSnippetSet == {[text |-> t, start |-> s, duration |-> 1] : t \in Texts, s \in 0..1}

Transcripts ==
    {[available |-> TRUE, snippets |-> l] :
        l \in {r \in UNION {[1..k -> RawSnippetSet] : k \in 0..MaxTranscript} :
                    InStartOrder(r)}}

VARIABLES
    transcript,        \* what the transcript source holds for the video, or "unavailable"
    seg_received,      \* the results a direct caller of make_segments has received so far
    split_content,     \* text_splitter argument content
    split_max_tokens,  \* text_splitter argument max_tokens
    split_result,      \* the dictionary text_splitter returned
    chunks,            \* process_chunks_parallel argument chunks
    chunks_pc,         \* position of the process_chunks_parallel call
    chunk_state,       \* chunk -> state of its process_single_chunk call
    chunk_future,      \* chunk -> what its process_single_chunk call returned
    chunk_calls,       \* chunk -> number of llm.invoke calls made for it
    chunk_results,     \* the pre-sized list chunk_results
    chunks_result,     \* the dictionary process_chunks_parallel returned
    insight_result,    \* extract_structured_insights argument insight_result
    structured_insights, \* the dictionary extract_structured_insights returned
    pipeline_module,   \* what "from pipeline import run_complete_pipeline" binds
    jobs,              \* main.jobs: job id -> its dictionary
    job_progress,      \* main.job_progress: job id -> its queue of messages
    sys_stdout,        \* sys.stdout: the original stream or a job's ProgressCapture
    capture,           \* job id -> the ProgressCapture of its worker
    worker,            \* job id -> position of its process_video_async thread
    stream,            \* the stream_progress generator a client has opened
    snippets,          \* make_segments argument transcript_snippets
    total_duration,    \* make_segments argument total_duration
    num_segments,      \* make_segments argument num_segments
    seg_pc,            \* position of the make_segments call
    seg_task,          \* segment id -> state of its pool task
    seg_future,        \* segment id -> result of its future
    segments,          \* the list make_segments collects into
    seg_result,        \* the dictionary make_segments returns
    pc,                \* position of the caller's thread
    entry,             \* the function the caller invoked
    intermediate_steps,\* (tool, observation) pairs of the video-processor agent run
    agent_1_result,    \* what run_video_processor_pipeline returned
    segments_data,     \* argument of run_structured_insight_extraction_pipeline
    ext_state,         \* call -> position inside process_segment_with_structured_output
    ext_arg,           \* call -> (segment_data, segment_number) it was called with
    ext_log,           \* call -> the LLM calls it made and their outcomes
    ext_result,        \* call -> outcome of the call (the future's content)
    ext_tool,          \* call -> the process_chunks_parallel call its agent is inside
    segment_analyses,  \* the pre-sized result list of the extraction stage
    structured_result, \* the MultiSegmentAnalysis
    saved,             \* persistence operations invoked, in order
    ret                \* value returned to the caller

seg_vars == <<snippets, total_duration, num_segments, seg_pc, seg_task,
              seg_future, segments, seg_result>>

ext_vars == <<ext_state, ext_arg, ext_log, ext_result, ext_tool>>

pipe_vars == <<pc, entry, intermediate_steps, agent_1_result, segments_data, segment_analyses,
               structured_result, saved, ret>>

split_vars == <<split_content, split_max_tokens, split_result>>

\* the calls of the analysis tools made by a direct caller
chunk_vars == <<chunks, chunks_pc, chunk_state, chunk_future, chunk_calls, chunk_results,
                chunks_result>>

saver_vars == <<insight_result, structured_insights>>

tool_vars == <<split_vars, chunk_vars, saver_vars>>

\* the job server
job_vars == <<pipeline_module, jobs, job_progress, sys_stdout, capture, worker, stream>>

\* what the steps of the pipeline leave alone: the transcript source, the
\* direct caller of make_segments, the direct calls of the analysis tools
\* and the job server
env_vars == <<transcript, seg_received, tool_vars, job_vars>>

vars == <<env_vars, seg_vars, ext_vars, pipe_vars>>

\* ------------------------------------------------------------- segmenter
\* helpers.process_single_segment
process_single_segment_mut_closed(transcript_snippets, segment_range) ==
    LET segment_id == segment_range[1]
        start_time == segment_range[2]
        end_time   == segment_range[3]
        duration   == segment_range[4]
        segment_snippets == SelectSeq(transcript_snippets,
                    LAMBDA s : ~IntGtRat(s.start, end_time) /\ ~IntLtRat(s.end, start_time))
        segment_content == Join([k \in 1..Len(segment_snippets) |-> segment_snippets[k].text])
    IN  [id |-> segment_id, name |-> <<"Segment", segment_id>>,
         start_time |-> start_time, end_time |-> end_time, duration |-> duration,
         content |-> segment_content, snippet_count |-> Len(segment_snippets),
         character_count |-> StrLen(segment_content),
         estimated_tokens |-> StrLen(segment_content) \div 4]

process_single_segment(transcript_snippets, segment_range) ==
    LET segment_id == segment_range[1]
        start_time == segment_range[2]
        end_time   == segment_range[3]
        duration   == segment_range[4]
        segment_snippets == SelectSeq(transcript_snippets,
                    LAMBDA s : IntLtRat(s.start, end_time) /\ IntGtRat(s.end, start_time))
        segment_content == Join([k \in 1..Len(segment_snippets) |-> segment_snippets[k].text])
    IN  [id |-> segment_id, name |-> <<"Segment", segment_id>>,
         start_time |-> start_time, end_time |-> end_time, duration |-> duration,
         content |-> segment_content, snippet_count |-> Len(segment_snippets),
         character_count |-> StrLen(segment_content),
         estimated_tokens |-> StrLen(segment_content) \div 4]

\* make_segments: segment_duration and the list segment_ranges
segment_duration_of(td, n) == RatDiv(td, n)

segment_ranges_of(td, n) ==
    [k \in 1..n |-> <<k, RatMulInt(k - 1, segment_duration_of(td, n)),
                         RatMulInt(k, segment_duration_of(td, n)),
                         segment_duration_of(td, n)>>]

\* list.sort(key=lambda x: x['id']): a stable insertion sort
RECURSIVE InsertById_mut_front(_, _)
InsertById_mut_front(x, sorted) == <<x>> \o sorted

RECURSIVE InsertById(_, _)
InsertById(x, sorted) ==
    IF sorted = <<>> THEN <<x>>
    ELSE IF x.id < Head(sorted).id THEN <<x>> \o sorted
    ELSE <<Head(sorted)>> \o InsertById(x, Tail(sorted))

SortById_mut_none(list) == list

RECURSIVE SortById(_)
SortById(list) ==
    IF list = <<>> THEN <<>>
    ELSE CHOOSE result \in {InsertById(list[Len(list)], rest) :
                                rest \in {SortById(SubSeq(list, 1, Len(list) - 1))}} : TRUE

SegFailure(msg) ==
    [success |-> FALSE, error |-> msg, segments |-> <<>>, total_segments |-> 0]

\* make_segments up to the submission of the pool tasks: validation, the
\* ZeroDivisionError of total_duration / 0 and the ValueError of
\* ThreadPoolExecutor(max_workers <= 0) both end in the except clause.
MakeSegmentsBegin(ts, td, n) ==
    /\ seg_pc = "idle"
    /\ snippets' = ts
    /\ total_duration' = td
    /\ num_segments' = n
    /\ segments' = <<>>
    /\ IF ts = <<>> THEN
            /\ seg_result' = SegFailure("No transcript snippets provided")
            /\ seg_pc' = "done"
            /\ UNCHANGED <<seg_task, seg_future>>
       ELSE IF td <= 0 THEN
            /\ seg_result' = SegFailure("total_duration must be a positive number")
            /\ seg_pc' = "done"
            /\ UNCHANGED <<seg_task, seg_future>>
       ELSE IF n = 0 THEN
            /\ seg_result' = SegFailure("Failed to create segments: division by zero")
            /\ seg_pc' = "done"
            /\ UNCHANGED <<seg_task, seg_future>>
       ELSE IF n < 0 THEN
            /\ seg_result' = SegFailure("Failed to create segments: max_workers must be greater than 0")
            /\ seg_pc' = "done"
            /\ UNCHANGED <<seg_task, seg_future>>
       ELSE
            /\ seg_task' = [k \in 1..n |-> "pending"]
            /\ seg_future' = [k \in 1..n |-> NoValue]
            /\ seg_result' = NoValue
            /\ seg_pc' = "collect"

\* a pool worker runs process_single_segment for one window
SegWorkerFinish(k) ==
    /\ seg_pc = "collect"
    /\ k \in DOMAIN seg_task
    /\ seg_task[k] = "pending"
    /\ seg_task' = [seg_task EXCEPT ![k] = "done"]
    /\ seg_future' = [seg_future EXCEPT ![k] =
            process_single_segment(snippets, segment_ranges_of(total_duration, num_segments)[k])]
    /\ UNCHANGED <<snippets, total_duration, num_segments, seg_pc, segments, seg_result>>

\* one iteration of "for future in as_completed(...)": segments.append
SegCollect(k) ==
    /\ seg_pc = "collect"
    /\ k \in DOMAIN seg_task
    /\ seg_task[k] = "done"
    /\ seg_task' = [seg_task EXCEPT ![k] = "collected"]
    /\ segments' = Append(segments, seg_future[k])
    /\ UNCHANGED <<snippets, total_duration, num_segments, seg_pc, seg_future, seg_result>>

\* after the loop: segments.sort (in place), then the return; the pool and
\* its futures are gone with the end of the "with" block
MakeSegmentsReturn ==
    /\ seg_pc = "collect"
    /\ \A k \in DOMAIN seg_task : seg_task[k] = "collected"
    /\ segments' = SortById(segments)
    /\ seg_result' = [success |-> TRUE, segments |-> SortById(segments),
                      total_segments |-> num_segments,
                      segment_duration |-> segment_duration_of(total_duration, num_segments)]
    /\ seg_task' = <<>>
    /\ seg_future' = <<>>
    /\ seg_pc' = "done"
    /\ UNCHANGED <<snippets, total_duration, num_segments>>

Min(a, b) == IF a < b THEN a ELSE b

\* ------------------------------------------------- the segment extractor
\* dict.get(key, default)
Get(d, key, default) == IF key \in DOMAIN d THEN d[key] ELSE default

LARGE_THRESHOLD == 40000

\* process_segment_with_structured_output: the path decision
PathOf_mut_ge(segment_data) ==
    IF Get(segment_data, "estimated_tokens", 0) >= LARGE_THRESHOLD THEN "agent" ELSE "small"

PathOf(segment_data) ==
    IF Get(segment_data, "estimated_tokens", 0) > LARGE_THRESHOLD THEN "agent" ELSE "small"

\* the prompts; the model's answer is a term over the prompt it was given
SmallPrompt(segment_data, segment_number) ==
    [segment_number |-> segment_number,
     content |-> Get(segment_data, "content", <<>>),
     duration |-> Get(segment_data, "duration", [str |-> "Unknown"]),
     character_count |-> Get(segment_data, "character_count", 0)]

AgentInput(segment_data, segment_number) ==
    [segment_number |-> segment_number, segment_data |-> segment_data]

StructuredPrompt(segment_data, segment_number) ==
    [segment_number |-> segment_number,
     processed_content |-> <<"agent output for", AgentInput(segment_data, segment_number)>>,
     duration |-> Get(segment_data, "duration", [str |-> "Unknown"]),
     character_count |-> Get(segment_data, "character_count", 0)]

\* a SegmentAnalysis as the structured LLM returns it; m is the
\* segment_number the model chose to put in it
LLMAnalysis(prompt, m) ==
    [segment_number |-> m,
     segment_name |-> <<"name for", prompt.segment_number>>,
     summary |-> <<"summary of", prompt>>,
     key_insights |-> <<"insight 1", "insight 2", "insight 3">>,
     actionable_takeaways |-> <<"takeaway 1", "takeaway 2">>]

\* result.segment_number = segment_number
ForceNumber_mut_keep(result, segment_number) == result

ForceNumber(result, segment_number) == [result EXCEPT !.segment_number = segment_number]

\* the except clause: the fallback SegmentAnalysis
Fallback_mut_name(segment_number, e) ==
    [segment_number |-> segment_number,
     segment_name |-> <<"Segment", segment_number, "(Error)">>,
     summary |-> <<"Error processing segment: ", e>>,
     key_insights |-> <<"Processing error occurred">>,
     actionable_takeaways |-> <<"Review segment processing">>]

Fallback(segment_number, e) ==
    [segment_number |-> segment_number,
     segment_name |-> <<"Segment", segment_number, "(Processing Error)">>,
     summary |-> <<"Error processing segment: ", e>>,
     key_insights |-> <<"Processing error occurred">>,
     actionable_takeaways |-> <<"Review segment processing">>]

\* the content of a finished call: a returned value or a raised exception
Returned(v) == [raised |-> FALSE, value |-> v]

\* "except Exception as e: return SegmentAnalysis(...)"
OnException_mut_raise(segment_number, e) == [raised |-> TRUE, value |-> e]

OnException(segment_number, e) == Returned(Fallback(segment_number, e))

\* str(e) of the exceptions an LLM call can end in
AgentError == "agent executor error"
LLMError   == "structured llm error"

ModelNumbers == {0, 1, 9}    \* segment_number values the model may answer

Running(st) == st \in {"small", "agent", "tool", "structured"}

\* the agent is inside no tool call
NoTool == [chunks |-> 0, left |-> 0]

LogCall(i, kind, outcome) ==
    ext_log' = [ext_log EXCEPT ![i] = Append(@, [kind |-> kind, outcome |-> outcome])]

\* where process_segment_with_structured_output goes after agent.invoke:
\* on to step 2, or into the except clause
AfterAgent_mut_continue(outcome) == "structured"

AfterAgent(outcome) == IF outcome = "ok" THEN "structured" ELSE "finished"

\* LARGE path, step 1: agent.invoke returns its output, or raises. In state
\* "agent" the agent waits for its LLM, which answers here with the final
\* output or fails.
AgentPass(i) ==
    /\ i \in DOMAIN ext_state
    /\ ext_state[i] = "agent"
    /\ \/ /\ ext_state' = [ext_state EXCEPT ![i] = AfterAgent("ok")]
          /\ LogCall(i, "agent", "ok")
          /\ UNCHANGED ext_result
       \/ /\ ext_state' = [ext_state EXCEPT ![i] = AfterAgent("raise")]
          /\ LogCall(i, "agent", "raise")
          /\ ext_result' = [ext_result EXCEPT ![i] =
                                OnException(ext_arg[i].segment_number, AgentError)]
    /\ UNCHANGED <<ext_arg, ext_tool>>

CHUNK_WORKERS == 5

\* ThreadPoolExecutor(max_workers=min(len(chunks), 5))
ChunkPoolSize_mut_all(n) == n

ChunkPoolSize(n) == Min(n, CHUNK_WORKERS)

\* chunk-list lengths the agent's LLM passes to process_chunks_parallel
ToolChunkCounts == {1, MaxToolChunks}

\* the chunk extraction calls in progress inside the tool call of one agent:
\* the single-chunk branch runs its call in the agent's thread; otherwise a
\* chunk is in progress from the moment a worker of the pool is free for it
ChunkCallsInProgress_mut_none(tool) == 0

ChunkCallsInProgress(tool) == Min(tool.left, ChunkPoolSize(tool.chunks))

\* the agent's LLM answers with a call of process_chunks_parallel and the
\* executor enters the tool (the agent has one thread and one tool call at a
\* time). Calls of text_splitter, of an unknown tool and of
\* process_chunks_parallel with an empty list make no LLM call and leave the
\* agent waiting for its LLM again.
AgentCallsChunkTool(i) ==
    /\ i \in DOMAIN ext_state
    /\ ext_state[i] = "agent"
    /\ \E k \in ToolChunkCounts : ext_tool' = [ext_tool EXCEPT ![i] = [chunks |-> k, left |-> k]]
    /\ ext_state' = [ext_state EXCEPT ![i] = "tool"]
    /\ UNCHANGED <<ext_arg, ext_log, ext_result>>

\* the llm.invoke of one chunk returns or raises; process_single_chunk turns
\* either into a dictionary
ToolChunkFinish(i) ==
    /\ i \in DOMAIN ext_state
    /\ ext_state[i] = "tool"
    /\ ChunkCallsInProgress(ext_tool[i]) > 0
    /\ ext_tool' = [ext_tool EXCEPT ![i].left = @ - 1]
    /\ UNCHANGED <<ext_state, ext_arg, ext_log, ext_result>>

\* process_chunks_parallel returns its merged result to the executor, which
\* calls the agent's LLM with it
ToolReturn(i) ==
    /\ i \in DOMAIN ext_state
    /\ ext_state[i] = "tool"
    /\ ext_tool[i].left = 0
    /\ ext_tool' = [ext_tool EXCEPT ![i] = NoTool]
    /\ ext_state' = [ext_state EXCEPT ![i] = "agent"]
    /\ UNCHANGED <<ext_arg, ext_log, ext_result>>

\* structured_llm.invoke(prompt) on either path: it returns a
\* SegmentAnalysis (whose segment_number is then overwritten), or raises
StructuredCall(i) ==
    /\ i \in DOMAIN ext_state
    /\ ext_state[i] \in {"small", "structured"}
    /\ LET sd == ext_arg[i].segment_data
           n  == ext_arg[i].segment_number
           prompt == IF ext_state[i] = "small" THEN SmallPrompt(sd, n)
                     ELSE StructuredPrompt(sd, n)
       IN  \/ /\ \E m \in ModelNumbers :
                    ext_result' = [ext_result EXCEPT ![i] =
                                        Returned(ForceNumber(LLMAnalysis(prompt, m), n))]
              /\ LogCall(i, "structured", "ok")
           \/ /\ ext_result' = [ext_result EXCEPT ![i] = OnException(n, LLMError)]
              /\ LogCall(i, "structured", "raise")
    /\ ext_state' = [ext_state EXCEPT ![i] = "finished"]
    /\ UNCHANGED <<ext_arg, ext_tool>>

\* ------------------------------------------------- the video-processor agent
\* get_video_transcript
get_video_transcript(source) ==
    IF ~source.available THEN
        [success |-> FALSE, error |-> "Failed to get YouTube transcript",
         transcript_snippets |-> <<>>, metadata |-> <<>>,
         full_transcript |-> <<>>, total_snippets |-> 0]
    ELSE
        LET tr == source.snippets
            full_transcript == Join([k \in 1..Len(tr) |-> tr[k].text])
        IN  [transcript_snippets |->
                [k \in 1..Len(tr) |-> Snippet(tr[k].text, tr[k].start, tr[k].duration)],
             metadata |->
                [total_duration |-> IF tr = <<>> THEN 0
                                    ELSE tr[Len(tr)].start + tr[Len(tr)].duration,
                 total_characters |-> StrLen(full_transcript),
                 estimated_tokens |-> StrLen(full_transcript) \div 4],
             full_transcript |-> full_transcript,
             total_snippets |-> Len(tr),
             success |-> TRUE]

\* the tools the video-processor agent is built with
AgentTools == {"get_video_transcript", "make_segments"}

Step(tool, observation) == [tool |-> tool, observation |-> observation]

\* an observation is a dictionary (a tool's return value) or a string (the
\* executor's answer to a request for a tool the agent does not have)
StrObservation(text) == [str |-> text]
IsDict(observation)  == "str" \notin DOMAIN observation

\* the values the agent passes on to make_segments: those of the latest
\* successful get_video_transcript observation, if there is one
RECURSIVE LatestFetch(_)
LatestFetch(steps) ==
    IF steps = <<>> THEN [transcript_snippets |-> <<>>, total_duration |-> 0]
    ELSE LET last == steps[Len(steps)]
         IN  IF last.tool = "get_video_transcript" /\ last.observation.success
             THEN [transcript_snippets |-> last.observation.transcript_snippets,
                   total_duration |-> last.observation.metadata.total_duration]
             ELSE LatestFetch(SubSeq(steps, 1, Len(steps) - 1))

\* run_complete_pipeline: the search of intermediate_steps for the segments;
\* an empty list stands for segments_data staying None as well
RECURSIVE FindSegmentsData_mut_snippets(_)
FindSegmentsData_mut_snippets(steps) ==
    IF steps = <<>> THEN <<>>
    ELSE IF /\ Head(steps).tool = "get_video_transcript"
            /\ IsDict(Head(steps).observation)
            /\ Get(Head(steps).observation, "success", FALSE)
         THEN Get(Head(steps).observation, "transcript_snippets", <<>>)
         ELSE FindSegmentsData_mut_snippets(Tail(steps))

RECURSIVE FindSegmentsData(_)
FindSegmentsData(steps) ==
    IF steps = <<>> THEN <<>>
    ELSE IF /\ Head(steps).tool = "process_video_and_segment"
            /\ IsDict(Head(steps).observation)
            /\ Get(Head(steps).observation, "success", FALSE)
         THEN Get(Head(steps).observation, "segments", <<>>)
         ELSE FindSegmentsData(Tail(steps))

\* ------------------------------------------------------ the orchestrator
EXTRACT_WORKERS == 3

\* ThreadPoolExecutor(max_workers=min(len(segments_data), 3))
ExtractPoolSize_mut_all(n) == n

ExtractPoolSize(n) == Min(n, EXTRACT_WORKERS)

\* process_single_segment_structured: segment_number = index + 1, where the
\* 0-based index of the code is i - 1 for position i of the list here
SegmentNumberOf_mut_index(i) == i - 1

SegmentNumberOf(i) == (i - 1) + 1

\* segment_analyses[segment_index] = result
StoreResult_mut_append(analyses, i, result) ==
    [analyses EXCEPT ![Cardinality({k \in DOMAIN analyses : analyses[k] # None}) + 1] = result]

StoreResult(analyses, i, result) == [analyses EXCEPT ![i] = result]

\* valid_analyses = [analysis for analysis in segment_analyses if analysis is not None]
ValidAnalyses(analyses) == SelectSeq(analyses, LAMBDA a : a # None)

\* MultiSegmentAnalysis(segments=valid_analyses, total_segments=len(valid_analyses))
MultiSegmentAnalysis_mut_count(valid_analyses) ==
    [segments |-> valid_analyses, total_segments |-> Len(valid_analyses) + 1]

MultiSegmentAnalysis(valid_analyses) ==
    [segments |-> valid_analyses, total_segments |-> Len(valid_analyses)]

\* the end of the "with ThreadPoolExecutor" block: every future has been
\* yielded by as_completed and stored
AllCollected_mut_first == \E i \in DOMAIN ext_state : ext_state[i] = "collected"

AllCollected == \A i \in DOMAIN ext_state : ext_state[i] = "collected"

\* run_structured_insight_extraction_pipeline up to the submission of the
\* tasks; ThreadPoolExecutor(max_workers=0) raises ValueError, which the
\* except clause turns into None
RunStructuredBegin(sd) ==
    /\ segments_data' = sd
    /\ IF Len(sd) = 0 THEN
            /\ ret' = None
            /\ pc' = "returned"
            /\ UNCHANGED <<ext_vars, segment_analyses>>
       ELSE
            /\ ext_state' = [i \in 1..Len(sd) |-> "queued"]
            /\ ext_arg' = [i \in 1..Len(sd) |-> NoValue]
            /\ ext_log' = [i \in 1..Len(sd) |-> <<>>]
            /\ ext_result' = [i \in 1..Len(sd) |-> NoValue]
            /\ ext_tool' = [i \in 1..Len(sd) |-> NoTool]
            /\ segment_analyses' = [i \in 1..Len(sd) |-> None]
            /\ pc' = "extract"
            /\ UNCHANGED ret

\* a pool worker takes the next task from the queue and enters
\* process_segment_with_structured_output
ExtractStart(i) ==
    /\ pc = "extract"
    /\ i \in DOMAIN ext_state
    /\ ext_state[i] = "queued"
    /\ \A j \in 1..(i - 1) : ext_state[j] # "queued"
    /\ Cardinality({j \in DOMAIN ext_state : Running(ext_state[j])})
            < ExtractPoolSize(Len(segments_data))
    /\ ext_arg' = [ext_arg EXCEPT ![i] =
            [segment_data |-> segments_data[i], segment_number |-> SegmentNumberOf(i)]]
    /\ ext_state' = [ext_state EXCEPT ![i] = PathOf(segments_data[i])]
    /\ UNCHANGED <<ext_log, ext_result, ext_tool>>

\* one iteration of "for future in as_completed(...)"
Collect(i) ==
    /\ pc = "extract"
    /\ i \in DOMAIN ext_state
    /\ ext_state[i] = "finished"
    /\ ext_state' = [ext_state EXCEPT ![i] = "collected"]
    /\ segment_analyses' =
            IF ext_result[i].raised THEN segment_analyses
            ELSE StoreResult(segment_analyses, i, ext_result[i].value)
    /\ UNCHANGED <<ext_arg, ext_log, ext_result, ext_tool>>

\* the rest of run_structured_insight_extraction_pipeline and, when it was
\* called by run_complete_pipeline, the rest of that function: the final
\* results, save_analysis_results, save_analysis_summary, return
RunStructuredFinish ==
    /\ pc = "extract"
    /\ AllCollected
    /\ LET valid_analyses == ValidAnalyses(segment_analyses)
           agent_2_result ==
                [structured_analysis |-> MultiSegmentAnalysis(valid_analyses),
                 success |-> TRUE,
                 total_segments_processed |-> Len(valid_analyses),
                 processing_method |-> "structured_parallel"]
       IN  /\ structured_result' = MultiSegmentAnalysis(valid_analyses)
           /\ IF entry = "run_complete_pipeline" THEN
                    /\ saved' = <<"save_analysis_results", "save_analysis_summary">>
                    /\ ret' = [video_processor_result |-> agent_1_result,
                               insight_extraction_result |-> agent_2_result,
                               segments_data |-> segments_data]
              ELSE
                    /\ ret' = agent_2_result
                    /\ UNCHANGED saved
    /\ pc' = "returned"
    /\ UNCHANGED <<env_vars, seg_vars, ext_vars, entry, intermediate_steps, agent_1_result,
                   segments_data, segment_analyses>>

\* run_complete_pipeline is called; run_video_processor_pipeline builds the
\* agent and enters agent.invoke
CallRunCompletePipeline ==
    /\ pc = "idle"
    /\ entry' = "run_complete_pipeline"
    /\ pc' = "agent1"
    /\ UNCHANGED <<env_vars, seg_vars, ext_vars, intermediate_steps, agent_1_result, segments_data,
                   segment_analyses, structured_result, saved, ret>>

\* agent.invoke: the agent calls get_video_transcript
AgentFetch ==
    /\ pc = "agent1"
    /\ Len(intermediate_steps) < MaxSteps
    /\ intermediate_steps' = Append(intermediate_steps,
            Step("get_video_transcript", get_video_transcript(transcript)))
    /\ UNCHANGED <<agent_1_result, env_vars, seg_vars, ext_vars, pc, entry, segments_data,
                   segment_analyses, structured_result, saved, ret>>

\* agent.invoke: the agent calls make_segments
AgentMakeSegments ==
    /\ pc = "agent1"
    /\ Len(intermediate_steps) < MaxSteps
    /\ \E n \in 1..MaxPipeSegs :
            MakeSegmentsBegin(LatestFetch(intermediate_steps).transcript_snippets,
                              LatestFetch(intermediate_steps).total_duration, n)
    /\ pc' = "agent1_tool"
    /\ UNCHANGED <<env_vars, ext_vars, entry, intermediate_steps, agent_1_result, segments_data,
                   segment_analyses, structured_result, saved, ret>>

\* agent.invoke: make_segments has returned; its result becomes an observation
AgentToolReturn ==
    /\ pc = "agent1_tool"
    /\ seg_pc = "done"
    /\ intermediate_steps' = Append(intermediate_steps, Step("make_segments", seg_result))
    /\ seg_pc' = "idle"
    /\ pc' = "agent1"
    /\ UNCHANGED <<agent_1_result, env_vars, snippets, total_duration, num_segments, seg_task,
                   seg_future, segments, seg_result, ext_vars, entry, segments_data,
                   segment_analyses, structured_result, saved, ret>>

\* agent.invoke: the agent asks for a tool it does not have; the executor
\* answers with a string observation
AgentInvalidTool ==
    /\ pc = "agent1"
    /\ Len(intermediate_steps) < MaxSteps
    /\ intermediate_steps' = Append(intermediate_steps,
            Step("process_video_and_segment",
                 StrObservation("process_video_and_segment is not a valid tool")))
    /\ UNCHANGED <<agent_1_result, env_vars, seg_vars, ext_vars, pc, entry, segments_data,
                   segment_analyses, structured_result, saved, ret>>

\* agent.invoke raises; run_video_processor_pipeline returns None and so
\* does run_complete_pipeline
AgentRaise ==
    /\ pc = "agent1"
    /\ agent_1_result' = None
    /\ ret' = None
    /\ pc' = "returned"
    /\ UNCHANGED <<env_vars, seg_vars, ext_vars, entry, intermediate_steps,
                   segments_data, segment_analyses, structured_result, saved>>

\* agent.invoke returns; run_complete_pipeline looks for the segments and
\* either returns None or calls run_structured_insight_extraction_pipeline
AgentFinish ==
    /\ pc = "agent1"
    /\ agent_1_result' = [intermediate_steps |-> intermediate_steps]
    /\ IF FindSegmentsData(intermediate_steps) = <<>> THEN
            /\ ret' = None
            /\ pc' = "returned"
            /\ UNCHANGED <<ext_vars, segments_data, segment_analyses>>
       ELSE RunStructuredBegin(FindSegmentsData(intermediate_steps))
    /\ UNCHANGED <<env_vars, seg_vars, entry, intermediate_steps,
                   structured_result, saved>>

\* a caller that uses the tools itself: get_video_transcript, then
\* make_segments on what it returned
CallToolsDirect ==
    /\ pc = "idle"
    /\ entry' = "run_structured_insight_extraction_pipeline"
    /\ LET fetched == get_video_transcript(transcript)
       IN  \E n \in 1..MaxPipeSegs :
                MakeSegmentsBegin(fetched.transcript_snippets,
                                  IF fetched.success THEN fetched.metadata.total_duration ELSE 0,
                                  n)
    /\ pc' = "segmenting"
    /\ UNCHANGED <<env_vars, ext_vars, intermediate_steps, agent_1_result, segments_data,
                   segment_analyses, structured_result, saved, ret>>

\* ... and then run_structured_insight_extraction_pipeline on the segments
CallRunStructured ==
    /\ pc = "segmenting"
    /\ seg_pc = "done"
    /\ RunStructuredBegin(seg_result.segments)
    /\ UNCHANGED <<env_vars, seg_vars, entry, intermediate_steps, agent_1_result,
                   structured_result, saved>>

\* ---------------------------------------------------------- file_saver
\* A dictionary whose keys are not fixed is the record [dict |-> d]; an
\* object is the record of its attributes.
IsDictValue(v) == "dict" \in DOMAIN v

\* hasattr(v, name)
HasAttr(v, name) == ~IsDictValue(v) /\ name \in DOMAIN v

\* the dictionary appended for one segment
SegmentInsight(segment) ==
    [segment_number |-> segment.segment_number,
     segment_name |-> segment.segment_name,
     summary |-> segment.summary,
     key_insights |-> segment.key_insights,
     actionable_takeaways |-> segment.actionable_takeaways]

\* "for segment in structured_analysis.segments: segments_insights.append(...)"
RECURSIVE SegmentsInsights_mut_prepend(_)
SegmentsInsights_mut_prepend(list) ==
    IF list = <<>> THEN <<>>
    ELSE SegmentsInsights_mut_prepend(Tail(list)) \o <<SegmentInsight(Head(list))>>

RECURSIVE SegmentsInsights(_)
SegmentsInsights(list) ==
    IF list = <<>> THEN <<>>
    ELSE <<SegmentInsight(Head(list))>> \o SegmentsInsights(Tail(list))

TextInsights(result) ==
    [output |-> Get(result, "output", "No insights available"), format |-> "text"]

\* file_saver.extract_structured_insights
extract_structured_insights(result) ==
    IF "structured_analysis" \in DOMAIN result THEN
        LET structured_analysis == result.structured_analysis
        IN  IF HasAttr(structured_analysis, "segments") THEN
                [total_segments |-> structured_analysis.total_segments,
                 segments |-> SegmentsInsights(structured_analysis.segments),
                 format |-> "structured"]
            ELSE IF IsDictValue(structured_analysis)
                        /\ "segments" \in DOMAIN structured_analysis.dict THEN
                [total_segments |-> Get(structured_analysis.dict, "total_segments", 0),
                 segments |-> Get(structured_analysis.dict, "segments", <<>>),
                 format |-> "structured"]
            ELSE TextInsights(result)
    ELSE TextInsights(result)

CallExtractStructuredInsights ==
    /\ structured_insights = NoValue
    /\ structured_insights' = extract_structured_insights(insight_result)
    /\ UNCHANGED <<transcript, seg_received, split_vars, chunk_vars, insight_result, job_vars,
                   seg_vars, ext_vars, pipe_vars>>

\* ------------------------------------------------------- text_splitter
\* In a content passed to text_splitter the filler "#" is a run of letters:
\* it holds no whitespace and no punctuation.
Whitespace == {" ", "\n"}

\* str.strip()
RECURSIVE LStrip(_)
LStrip(s) == IF s # <<>> /\ Head(s) \in Whitespace THEN LStrip(Tail(s)) ELSE s

RECURSIVE RStrip(_)
RStrip(s) ==
    IF s # <<>> /\ s[Len(s)] \in Whitespace THEN RStrip(SubSeq(s, 1, Len(s) - 1)) ELSE s

Strip(s) == RStrip(LStrip(s))

\* "".join(list)
RECURSIVE Concat(_)
Concat(list) == IF list = <<>> THEN <<>> ELSE Head(list) \o Concat(Tail(list))

DEFAULT_MAX_TOKENS == 50000
CHUNK_OVERLAP      == 1000

\* separators=["\n\n", "\n", ". ", "! ", "? ", " "]
SEPARATORS ==
    << <<"\n", "\n">>, <<"\n">>, <<".", " ">>, <<"!", " ">>, <<"?", " ">>, <<" ">> >>

\* RecursiveCharacterTextSplitter (langchain), as text_splitter configures
\* it: chunk_size = max_chars, chunk_overlap = 1000, the separators above,
\* and the library defaults length_function = len, keep_separator = True,
\* is_separator_regex = False, strip_whitespace = True.
\*
\* re.search(re.escape(sep), text): the position of the first match, or 0
Find(text, sep) ==
    LET hits == {i \in 1..(Len(text) - Len(sep) + 1) :
                    \A k \in 1..Len(sep) : text[i + k - 1] = sep[k]}
    IN  IF hits = {} THEN 0 ELSE CHOOSE i \in hits : \A j \in hits : i <= j

\* _split_text_with_regex with keep_separator = True: re.split("(sep)", text),
\* every separator joined to the piece that follows it, empty pieces dropped
RECURSIVE AfterSeparator(_, _)
AfterSeparator(rest, sep) ==
    LET j == Find(rest, sep)
    IN  IF j = 0 THEN <<sep \o rest>>
        ELSE <<sep \o SubSeq(rest, 1, j - 1)>>
                \o AfterSeparator(SubSeq(rest, j + Len(sep), Len(rest)), sep)

split_text_with_regex(text, sep) ==
    LET i == Find(text, sep)
        splits == IF i = 0 THEN <<text>>
                  ELSE <<SubSeq(text, 1, i - 1)>>
                          \o AfterSeparator(SubSeq(text, i + Len(sep), Len(text)), sep)
    IN  SelectSeq(splits, LAMBDA piece : piece # <<>>)

\* _join_docs with separator "": the joined text stripped, dropped when empty
join_docs(current_doc) ==
    LET text == Strip(Concat(current_doc))
    IN  IF text = <<>> THEN <<>> ELSE <<text>>

\* _merge_splits, the "while" loop that drops pieces from the front of
\* current_doc until at most chunk_overlap characters are kept and the next
\* piece fits; total is always the length of the pieces in current_doc
RECURSIVE Pop(_, _, _)
Pop(current_doc, len_d, chunk_size) ==
    LET total == StrLen(Concat(current_doc))
    IN  IF total > CHUNK_OVERLAP \/ (total + len_d > chunk_size /\ total > 0)
        THEN Pop(Tail(current_doc), len_d, chunk_size)
        ELSE current_doc

\* _merge_splits(splits, "") from piece Head(splits) on
RECURSIVE merge_splits(_, _, _)
merge_splits(splits, current_doc, chunk_size) ==
    IF splits = <<>> THEN join_docs(current_doc)
    ELSE LET d == Head(splits)
             total == StrLen(Concat(current_doc))
         IN  IF total + StrLen(d) > chunk_size /\ current_doc # <<>>
             THEN join_docs(current_doc)
                    \o merge_splits(Tail(splits),
                                    Append(Pop(current_doc, StrLen(d), chunk_size), d),
                                    chunk_size)
             ELSE merge_splits(Tail(splits), Append(current_doc, d), chunk_size)

\* _split_text: the first separator of the list found in the text (the last
\* one when none is), the separators after it
SeparatorIndex(text, separators) ==
    LET found == {i \in 1..Len(separators) : Find(text, separators[i]) # 0}
    IN  IF found = {} THEN 0 ELSE CHOOSE i \in found : \A j \in found : i <= j

\* _split_text: pieces shorter than chunk_size are collected and merged; a
\* piece that is not is split with the remaining separators, or, when none
\* remains, becomes a chunk as it is
RECURSIVE split_text(_, _, _)
RECURSIVE split_loop(_, _, _, _)
split_loop(splits, good_splits, new_separators, chunk_size) ==
    IF splits = <<>> THEN
        IF good_splits # <<>> THEN merge_splits(good_splits, <<>>, chunk_size) ELSE <<>>
    ELSE LET piece == Head(splits)
         IN  IF StrLen(piece) < chunk_size
             THEN split_loop(Tail(splits), Append(good_splits, piece), new_separators, chunk_size)
             ELSE (IF good_splits # <<>> THEN merge_splits(good_splits, <<>>, chunk_size)
                   ELSE <<>>)
                    \o (IF new_separators = <<>> THEN <<piece>>
                        ELSE split_text(piece, new_separators, chunk_size))
                    \o split_loop(Tail(splits), <<>>, new_separators, chunk_size)

split_text(text, separators, chunk_size) ==
    LET i == SeparatorIndex(text, separators)
        separator == IF i = 0 THEN separators[Len(separators)] ELSE separators[i]
        new_separators == IF i = 0 THEN <<>> ELSE SubSeq(separators, i + 1, Len(separators))
    IN  split_loop(split_text_with_regex(text, separator), <<>>, new_separators, chunk_size)

SplitFailure(msg) == [success |-> FALSE, error |-> msg, chunks |-> <<>>, total_chunks |-> 0]

\* "not content or not content.strip()"
IsBlank_mut_empty(content) == content = <<>>

IsBlank(content) == content = <<>> \/ Strip(content) = <<>>

\* "len(content) <= max_chars"
FitsOneChunk_mut_lt(content, max_chars) == StrLen(content) < max_chars

FitsOneChunk(content, max_chars) == StrLen(content) <= max_chars

\* text_splitter; the constructor of the splitter raises ValueError when
\* chunk_overlap > chunk_size, which ends in the except clause
text_splitter(content, max_tokens) ==
    LET max_chars == max_tokens * 4
    IN  IF IsBlank(content) THEN
            SplitFailure("No content provided to split")
        ELSE IF FitsOneChunk(content, max_chars) THEN
            [success |-> TRUE, needs_splitting |-> FALSE, chunks |-> <<content>>,
             total_chunks |-> 1, original_length |-> StrLen(content),
             estimated_tokens |-> StrLen(content) \div 4]
        ELSE IF CHUNK_OVERLAP > max_chars THEN
            SplitFailure("Failed to split content: Got a larger chunk overlap than chunk size")
        ELSE
            LET split_chunks == split_text(content, SEPARATORS, max_chars)
            IN  [success |-> TRUE, needs_splitting |-> TRUE, chunks |-> split_chunks,
                 total_chunks |-> Len(split_chunks), original_length |-> StrLen(content),
                 estimated_tokens |-> StrLen(content) \div 4,
                 chunk_sizes |-> [k \in 1..Len(split_chunks) |-> StrLen(split_chunks[k])],
                 chunk_tokens |-> [k \in 1..Len(split_chunks) |-> StrLen(split_chunks[k]) \div 4]]

\* the call of text_splitter
CallTextSplitter ==
    /\ split_result = NoValue
    /\ split_result' = text_splitter(split_content, split_max_tokens)
    /\ UNCHANGED <<transcript, seg_received, split_content, split_max_tokens, job_vars,
                   chunk_vars, saver_vars, seg_vars, ext_vars, pipe_vars>>

\* --------------------------------------------- process_chunks_parallel
INSIGHT_CAP   == 10
QUOTE_CAP     == 5
TAKEAWAY_CAP  == 7

Digits == <<"1", "2", "3", "4", "5", "6", "7", "8", "9">>

\* len(chunk_text.split()): the number of maximal runs without whitespace
WordCount(text) ==
    Cardinality({p \in 1..Len(text) :
        text[p] \notin Whitespace /\ (p = 1 \/ text[p - 1] \in Whitespace)})

\* a ChunkAnalysis as the structured LLM returns it for chunk chunk_num: n
\* insights, n quotes, n takeaways and one theme, each item naming the chunk
\* it was extracted from, and a summary
ChunkAnalysis(chunk_num, n) ==
    [insights  |-> [k \in 1..n |-> [chunk |-> chunk_num, kind |-> "insight", item |-> k]],
     summary   |-> <<"s", Digits[chunk_num]>>,
     quotes    |-> [k \in 1..n |-> [chunk |-> chunk_num, kind |-> "quote", item |-> k]],
     takeaways |-> [k \in 1..n |-> [chunk |-> chunk_num, kind |-> "takeaway", item |-> k]],
     themes    |-> <<[chunk |-> chunk_num, kind |-> "theme", item |-> 1]>>]

\* helpers.process_single_chunk: the dictionary built from the analysis
\* llm.invoke returned, and the one of the except clause (the lines before
\* llm.invoke, which load the environment and build the client, are taken
\* to succeed)
ChunkSuccess(chunk_text, chunk_num, total_chunks, analysis) ==
    [success |-> TRUE, chunk_number |-> chunk_num,
     insights |-> analysis.insights, summary |-> analysis.summary,
     quotes |-> analysis.quotes, takeaways |-> analysis.takeaways,
     themes |-> analysis.themes, word_count |-> WordCount(chunk_text),
     processing_notes |-> <<"LLM processed chunk", chunk_num, "of", total_chunks>>]

ChunkFailure(chunk_num) ==
    [success |-> FALSE, error |-> <<"Failed to process chunk", chunk_num>>,
     insights |-> <<>>, summary |-> <<>>]

\* list[:n]
Take(list, n) == SubSeq(list, 1, Min(n, Len(list)))

\* chunk_results[chunk_index] = future.result()
StoreChunkResult_mut_append(results, i, result) ==
    [results EXCEPT ![Cardinality({k \in DOMAIN results : results[k] # None}) + 1] = result]

StoreChunkResult(results, i, result) == [results EXCEPT ![i] = result]

\* "if result and result.get('success')"
Successful_mut_all(results) == SelectSeq(results, LAMBDA r : r # None)

Successful(results) ==
    SelectSeq(results, LAMBDA r : r # None /\ Get(r, "success", FALSE))

\* combined_insights[:10]
TopInsights(combined_insights) == Take(combined_insights, INSIGHT_CAP)

\* process_chunks_parallel: the merge of chunk_results and the return value
MergedResult(results) ==
    LET good == Successful(results)
        combined_insights  == Concat([k \in 1..Len(good) |-> Get(good[k], "insights", <<>>)])
        combined_summaries == [k \in 1..Len(good) |-> Get(good[k], "summary", <<>>)]
        all_quotes         == Concat([k \in 1..Len(good) |-> Get(good[k], "quotes", <<>>)])
        all_takeaways      == Concat([k \in 1..Len(good) |-> Get(good[k], "takeaways", <<>>)])
    IN  [success |-> TRUE,
         chunk_results |-> results,
         combined_insights |-> TopInsights(combined_insights),
         combined_summary |-> Join(combined_summaries),
         notable_quotes |-> Take(all_quotes, QUOTE_CAP),
         actionable_takeaways |-> Take(all_takeaways, TAKEAWAY_CAP),
         processing_method |-> <<"parallel_processing", Len(results), "chunks">>,
         total_chunks_processed |-> Len(results)]

\* process_chunks_parallel: the return value of the single-chunk branch
SingleChunkResult(chunk_result) ==
    [success |-> TRUE,
     chunk_results |-> <<chunk_result>>,
     combined_insights |-> chunk_result.insights,
     combined_summary |-> chunk_result.summary,
     notable_quotes |-> Get(chunk_result, "quotes", <<>>),
     actionable_takeaways |-> Get(chunk_result, "takeaways", <<>>),
     processing_method |-> <<"single_chunk">>]

\* process_chunks_parallel is entered: no chunks, one chunk (processed by
\* the caller's thread) or several (a pool of min(len(chunks), 5) workers)
CallProcessChunks ==
    /\ chunks_pc = "idle"
    /\ IF chunks = <<>> THEN
            /\ chunks_result' = [success |-> FALSE, error |-> "No chunks provided to process",
                                 insights |-> <<>>, combined_summary |-> <<>>]
            /\ chunks_pc' = "done"
            /\ UNCHANGED <<chunk_state, chunk_future, chunk_calls, chunk_results>>
       ELSE IF Len(chunks) = 1 THEN
            /\ chunk_state' = <<"running">>
            /\ chunk_future' = <<NoValue>>
            /\ chunk_calls' = <<1>>
            /\ chunks_pc' = "single"
            /\ UNCHANGED <<chunk_results, chunks_result>>
       ELSE
            /\ chunk_state' = [i \in 1..Len(chunks) |-> "queued"]
            /\ chunk_future' = [i \in 1..Len(chunks) |-> NoValue]
            /\ chunk_calls' = [i \in 1..Len(chunks) |-> 0]
            /\ chunk_results' = [i \in 1..Len(chunks) |-> None]
            /\ chunks_pc' = "pool"
            /\ UNCHANGED chunks_result
    /\ UNCHANGED chunks

\* a pool worker takes the next task from the queue and enters
\* process_single_chunk
ChunkStart(i) ==
    /\ chunks_pc = "pool"
    /\ chunk_state[i] = "queued"
    /\ \A j \in 1..(i - 1) : chunk_state[j] # "queued"
    /\ Cardinality({j \in DOMAIN chunk_state : chunk_state[j] = "running"})
            < ChunkPoolSize(Len(chunks))
    /\ chunk_state' = [chunk_state EXCEPT ![i] = "running"]
    /\ chunk_calls' = [chunk_calls EXCEPT ![i] = @ + 1]
    /\ UNCHANGED <<chunks, chunks_pc, chunk_future, chunk_results, chunks_result>>

ItemCounts == {0, 2, MaxItems}

\* process_single_chunk: llm.invoke returns a ChunkAnalysis, or raises
ChunkFinish(i) ==
    /\ chunk_state[i] = "running"
    /\ \/ \E n \in ItemCounts :
            chunk_future' = [chunk_future EXCEPT ![i] =
                ChunkSuccess(chunks[i], i, Len(chunks), ChunkAnalysis(i, n))]
       \/ chunk_future' = [chunk_future EXCEPT ![i] = ChunkFailure(i)]
    /\ chunk_state' = [chunk_state EXCEPT ![i] = "done"]
    /\ UNCHANGED <<chunks, chunks_pc, chunk_calls, chunk_results, chunks_result>>

\* one iteration of "for future in as_completed(...)"
ChunkCollect(i) ==
    /\ chunks_pc = "pool"
    /\ chunk_state[i] = "done"
    /\ chunk_results' = StoreChunkResult(chunk_results, i, chunk_future[i])
    /\ chunk_state' = [chunk_state EXCEPT ![i] = "collected"]
    /\ UNCHANGED <<chunks, chunks_pc, chunk_future, chunk_calls, chunks_result>>

\* the single-chunk branch returns
SingleChunkReturn ==
    /\ chunks_pc = "single"
    /\ chunk_state[1] = "done"
    /\ chunks_result' = SingleChunkResult(chunk_future[1])
    /\ chunks_pc' = "done"
    /\ UNCHANGED <<chunks, chunk_state, chunk_future, chunk_calls, chunk_results>>

\* the end of the "with ThreadPoolExecutor" block: as_completed has yielded
\* every future
AllChunksCollected_mut_first == \E i \in DOMAIN chunk_state : chunk_state[i] = "collected"

AllChunksCollected == \A i \in DOMAIN chunk_state : chunk_state[i] = "collected"

\* the pool has shut down: the merge and the return
ChunksReturn ==
    /\ chunks_pc = "pool"
    /\ AllChunksCollected
    /\ chunks_result' = MergedResult(chunk_results)
    /\ chunks_pc' = "done"
    /\ UNCHANGED <<chunks, chunk_state, chunk_future, chunk_calls, chunk_results>>

\* ------------------------------------------------------- the job server
\* job ids are uuid4 strings, all different; here they are numbered in the
\* order of submission
JobIds == 1..MaxJobs

\* what the job server leaves alone
NotJobs == <<transcript, seg_received, tool_vars, seg_vars, ext_vars, pipe_vars>>

\* the videos submitted: one for which fetch, segmentation and extraction
\* succeed, and one whose transcript cannot be fetched
Videos == {"ok", "unavailable"}

\* The streams sys.stdout can be: the stream the process started with, or
\* the ProgressCapture of job j, written j.
OriginalStdout == 0

\* main.py:5 takes run_complete_pipeline from the package pipeline, whose
\* __init__.py is the one to say what the name is: the function of
\* pipeline/orchestrator.py, which has the one parameter video_url, or a
\* function of the package itself that also takes callback_level and runs
\* as the specification of the orchestrator says.
PipelineModules == {"orchestrator", "package"}

Parameters(module) ==
    IF module = "orchestrator" THEN {"video_url"} ELSE {"video_url", "callback_level"}

\* run_complete_pipeline(video_url, callback_level=callback_level): a keyword
\* the function does not have makes the call raise TypeError before the
\* function runs
Keywords == {"callback_level"}

CallAccepted(module) == Keywords \subseteq Parameters(module)

\* what a run of the pipeline ends with: the result, None ("null"), or an
\* exception
RunOutcomes(video) == IF video = "ok" THEN {"result"} ELSE {"null", "raise"}

NoJob == [pc |-> "none", run |-> "none", lines |-> 0]

Message(type, message, j) == [type |-> type, message |-> message, job |-> j]

\* job_progress[job_id].put(msg)
QueuePut(progress, j, msg) == [progress EXCEPT ![j] = [queue |-> Append(@.queue, msg)]]

\* ProgressCapture.write of the capture "out" for a line of the whitelist
\* (other lines are passed on and change nothing): the line goes to
\* original_stdout.write first, which is another capture's write when that
\* capture was installed at construction, then into the queue of the
\* capture's own job, created if missing.
RECURSIVE Write(_, _, _)
Write(progress, out, msg) ==
    IF out = OriginalStdout THEN progress
    ELSE LET passed == Write(progress, capture[out].original_stdout, msg)
             ready  == IF passed[out] = NoValue
                       THEN [passed EXCEPT ![out] = [queue |-> <<>>]]
                       ELSE passed
         IN  QueuePut(ready, capture[out].job_id, msg)

\* analyze_video: the job is stored as queued and its thread started
AnalyzeVideo(j, video_url) ==
    /\ jobs[j] = NoValue
    /\ \A k \in 1..(j - 1) : jobs[k] # NoValue
    /\ jobs' = [jobs EXCEPT ![j] = [status |-> "queued", video_url |-> video_url,
                                     result |-> NoValue]]
    /\ worker' = [worker EXCEPT ![j] = [NoJob EXCEPT !.pc = "start"]]
    /\ UNCHANGED <<NotJobs, pipeline_module, job_progress, sys_stdout, capture, stream>>

\* process_video_async, statement by statement
SetProcessing(j) ==
    /\ worker[j].pc = "start"
    /\ jobs' = [jobs EXCEPT ![j].status = "processing"]
    /\ worker' = [worker EXCEPT ![j].pc = "queue"]
    /\ UNCHANGED <<NotJobs, pipeline_module, job_progress, sys_stdout, capture, stream>>

InitProgress(j) ==
    /\ worker[j].pc = "queue"
    /\ job_progress' = [job_progress EXCEPT ![j] = [queue |-> <<>>]]
    /\ worker' = [worker EXCEPT ![j].pc = "announce"]
    /\ UNCHANGED <<NotJobs, pipeline_module, jobs, sys_stdout, capture, stream>>

PutInitial(j) ==
    /\ worker[j].pc = "announce"
    /\ job_progress' = QueuePut(job_progress, j, Message("progress", "initializing", j))
    /\ worker' = [worker EXCEPT ![j].pc = "construct"]
    /\ UNCHANGED <<NotJobs, pipeline_module, jobs, sys_stdout, capture, stream>>

\* ProgressCapture.__init__
CaptureInit(j) ==
    /\ worker[j].pc = "construct"
    /\ capture' = [capture EXCEPT ![j] = [job_id |-> j, original_stdout |-> sys_stdout]]
    /\ worker' = [worker EXCEPT ![j].pc = "enter"]
    /\ UNCHANGED <<NotJobs, pipeline_module, jobs, job_progress, sys_stdout, stream>>

\* ProgressCapture.__enter__
CaptureEnter(j) ==
    /\ worker[j].pc = "enter"
    /\ sys_stdout' = j
    /\ worker' = [worker EXCEPT ![j].pc = "call"]
    /\ UNCHANGED <<NotJobs, pipeline_module, jobs, job_progress, capture, stream>>

\* the call of run_complete_pipeline
PipelineCall(j) ==
    /\ worker[j].pc = "call"
    /\ worker' = [worker EXCEPT ![j] =
            IF CallAccepted(pipeline_module) THEN [@ EXCEPT !.pc = "running"]
            ELSE [@ EXCEPT !.pc = "exit", !.run = "raise"]]
    /\ UNCHANGED <<NotJobs, pipeline_module, jobs, job_progress, sys_stdout, capture, stream>>

\* the run of job j prints a line of the whitelist: print writes to what
\* sys.stdout is at that moment
PipelinePrint(j) ==
    /\ worker[j].pc = "running"
    /\ worker[j].lines < MaxLines
    /\ job_progress' = Write(job_progress, sys_stdout, Message("progress", "line", j))
    /\ worker' = [worker EXCEPT ![j].lines = @ + 1]
    /\ UNCHANGED <<NotJobs, pipeline_module, jobs, sys_stdout, capture, stream>>

PipelineReturn(j) ==
    /\ worker[j].pc = "running"
    /\ \E outcome \in RunOutcomes(jobs[j].video_url) :
            worker' = [worker EXCEPT ![j].pc = "exit", ![j].run = outcome]
    /\ UNCHANGED <<NotJobs, pipeline_module, jobs, job_progress, sys_stdout, capture, stream>>

\* ProgressCapture.__exit__, on return and on an exception alike
CaptureExit(j) ==
    /\ worker[j].pc = "exit"
    /\ sys_stdout' = capture[j].original_stdout
    /\ worker' = [worker EXCEPT ![j].pc = "status"]
    /\ UNCHANGED <<NotJobs, pipeline_module, jobs, job_progress, capture, stream>>

\* "if result:" and the except clause: the first statement of each branch
FinalStatus(run) == IF run = "result" THEN "completed" ELSE "failed"

SetFinalStatus(j) ==
    /\ worker[j].pc = "status"
    /\ jobs' = [jobs EXCEPT ![j].status = FinalStatus(worker[j].run)]
    /\ worker' = [worker EXCEPT ![j].pc = IF worker[j].run = "result" THEN "store" ELSE "notify"]
    /\ UNCHANGED <<NotJobs, pipeline_module, job_progress, sys_stdout, capture, stream>>

\* jobs[job_id]["result"] = result
JobStoreResult(j) ==
    /\ worker[j].pc = "store"
    /\ jobs' = [jobs EXCEPT ![j].result = [video_url |-> jobs[j].video_url]]
    /\ worker' = [worker EXCEPT ![j].pc = "notify"]
    /\ UNCHANGED <<NotJobs, pipeline_module, job_progress, sys_stdout, capture, stream>>

\* the last put of each branch: the message of type completion or error
TerminalMessage(j) ==
    IF worker[j].run = "result" THEN Message("completion", "completed", j)
    ELSE Message("error", IF worker[j].run = "null" THEN "failed" ELSE "exception", j)

PutTerminal(j) ==
    /\ worker[j].pc = "notify"
    /\ job_progress' = QueuePut(job_progress, j, TerminalMessage(j))
    /\ worker' = [worker EXCEPT ![j].pc = "done"]
    /\ UNCHANGED <<NotJobs, pipeline_module, jobs, sys_stdout, capture, stream>>

\* stream_progress: a client opens the stream of job j, which need not exist
NoStream == [job |-> 0, pc |-> "none", sent |-> {}]

StreamOpen(j) ==
    /\ stream = NoStream
    /\ stream' = [job |-> j, pc |-> "waiting", sent |-> {}]
    /\ UNCHANGED <<NotJobs, pipeline_module, jobs, job_progress, sys_stdout, capture, worker>>

\* "while job_id not in job_progress and waited < max_wait_time" ends
\* because the queue is there ...
StreamFound ==
    /\ stream.pc = "waiting"
    /\ job_progress[stream.job] # NoValue
    /\ stream' = [stream EXCEPT !.pc = "poll"]
    /\ UNCHANGED <<NotJobs, pipeline_module, jobs, job_progress, sys_stdout, capture, worker>>

\* ... or because five seconds have passed
StreamNotFound ==
    /\ stream.pc = "waiting"
    /\ job_progress[stream.job] = NoValue
    /\ stream' = [stream EXCEPT !.pc = "closed", !.sent = @ \cup {"not found"}]
    /\ UNCHANGED <<NotJobs, pipeline_module, jobs, job_progress, sys_stdout, capture, worker>>

IsTerminalType(type) == type \in {"completion", "error"}

\* progress_queue.get(timeout=2) returns a message, which is sent
StreamGet ==
    /\ stream.pc = "poll"
    /\ job_progress[stream.job].queue # <<>>
    /\ LET message == Head(job_progress[stream.job].queue)
       IN  /\ job_progress' = [job_progress EXCEPT ![stream.job].queue = Tail(@)]
           /\ stream' = [stream EXCEPT !.sent = @ \cup {message.type},
                                       !.pc = IF IsTerminalType(message.type)
                                              THEN "closed" ELSE "poll"]
    /\ UNCHANGED <<NotJobs, pipeline_module, jobs, sys_stdout, capture, worker>>

\* ... or raises queue.Empty after two seconds without a message: a
\* heartbeat is sent
StreamEmpty ==
    /\ stream.pc = "poll"
    /\ job_progress[stream.job].queue = <<>>
    /\ stream' = [stream EXCEPT !.pc = "heartbeat", !.sent = @ \cup {"heartbeat"}]
    /\ UNCHANGED <<NotJobs, pipeline_module, jobs, job_progress, sys_stdout, capture, worker>>

\* "if job_id in jobs: ... if job_status in ['completed', 'failed']: break"
StreamCheckStatus ==
    /\ stream.pc = "heartbeat"
    /\ stream' = [stream EXCEPT !.pc =
            IF jobs[stream.job] # NoValue /\ jobs[stream.job].status \in {"completed", "failed"}
            THEN "closed" ELSE "poll"]
    /\ UNCHANGED <<NotJobs, pipeline_module, jobs, job_progress, sys_stdout, capture, worker>>

JobsIdle ==
    /\ pipeline_module = "orchestrator"
    /\ jobs = [j \in JobIds |-> NoValue]
    /\ job_progress = [j \in JobIds |-> NoValue]
    /\ sys_stdout = OriginalStdout
    /\ capture = [j \in JobIds |-> NoValue]
    /\ worker = [j \in JobIds |-> NoJob]
    /\ stream = NoStream

\* ------------------------------------------------------- specifications
InitCommon ==
    /\ seg_received = <<>>
    /\ snippets = <<>>
    /\ total_duration = 0
    /\ num_segments = 0
    /\ seg_pc = "idle"
    /\ seg_task = <<>>
    /\ seg_future = <<>>
    /\ segments = <<>>
    /\ seg_result = NoValue
    /\ pc = "idle"
    /\ entry = "none"
    /\ intermediate_steps = <<>>
    /\ agent_1_result = NoValue
    /\ segments_data = <<>>
    /\ ext_state = <<>>
    /\ ext_arg = <<>>
    /\ ext_log = <<>>
    /\ ext_result = <<>>
    /\ ext_tool = <<>>
    /\ segment_analyses = <<>>
    /\ structured_result = NoValue
    /\ saved = <<>>
    /\ ret = NoValue

NotSeg == <<env_vars, ext_vars, pipe_vars>>

SegWorker    == (\E k \in DOMAIN seg_task : SegWorkerFinish(k)) /\ UNCHANGED NotSeg
SegCollector == (\E k \in DOMAIN seg_task : SegCollect(k)) /\ UNCHANGED NotSeg
SegReturn    == MakeSegmentsReturn /\ UNCHANGED NotSeg

\* make_segments called on its own, on every input
ChunksIdle ==
    /\ chunks_pc = "idle"
    /\ chunk_state = <<>>
    /\ chunk_future = <<>>
    /\ chunk_calls = <<>>
    /\ chunk_results = <<>>
    /\ chunks_result = NoValue

\* no analysis tool is being called
SaverIdle == insight_result = NoValue /\ structured_insights = NoValue

ToolsIdle ==
    /\ chunks = <<>>
    /\ split_content = <<>>
    /\ split_max_tokens = DEFAULT_MAX_TOKENS
    /\ split_result = NoValue
    /\ ChunksIdle

InitSeg == transcript = Unavailable /\ InitCommon /\ JobsIdle /\ ToolsIdle /\ SaverIdle

CallMakeSegments ==
    /\ seg_pc = "idle"
    /\ seg_received = <<>>
    /\ \E ts \in SnippetLists, td \in 0..MaxDuration, n \in -1..MaxSegs :
            MakeSegmentsBegin(ts, td, n)
    /\ UNCHANGED NotSeg

\* the caller takes the dictionary make_segments returned
SegCallerReceive ==
    /\ seg_pc = "done"
    /\ Len(seg_received) < 2
    /\ seg_received' = Append(seg_received, seg_result)
    /\ seg_pc' = "idle"
    /\ UNCHANGED <<transcript, tool_vars, job_vars, snippets, total_duration, num_segments, seg_task,
                   seg_future, segments, seg_result, ext_vars, pipe_vars>>

\* ... and calls make_segments once more with the same arguments
CallMakeSegmentsAgain ==
    /\ seg_pc = "idle"
    /\ Len(seg_received) = 1
    /\ MakeSegmentsBegin(snippets, total_duration, num_segments)
    /\ UNCHANGED NotSeg

NextSeg ==
    \/ CallMakeSegments
    \/ SegWorker
    \/ SegCollector
    \/ SegReturn
    \/ SegCallerReceive
    \/ CallMakeSegmentsAgain

SpecSeg == InitSeg /\ [][NextSeg]_vars

\* process_segment_with_structured_output called on its own
SegmentDataInputs ==
    {<<>>} \cup
    {[content |-> c, estimated_tokens |-> t, duration |-> Rat(1, 1),
      character_count |-> StrLen(c)] :
        c \in {<<>>, <<"a">>}, t \in {0, LARGE_THRESHOLD, LARGE_THRESHOLD + 1}}

InitExt == transcript = Unavailable /\ InitCommon /\ JobsIdle /\ ToolsIdle /\ SaverIdle

CallProcessSegment ==
    /\ pc = "idle"
    /\ \E sd \in SegmentDataInputs, n \in 1..MaxNumber :
            /\ ext_arg' = <<[segment_data |-> sd, segment_number |-> n]>>
            /\ ext_state' = <<PathOf(sd)>>
    /\ ext_log' = << <<>> >>
    /\ ext_result' = <<NoValue>>
    /\ ext_tool' = <<NoTool>>
    /\ pc' = "called"
    /\ entry' = "process_segment_with_structured_output"
    /\ UNCHANGED <<env_vars, seg_vars, intermediate_steps, agent_1_result, segments_data,
                   segment_analyses, structured_result, saved, ret>>

NotExt == <<env_vars, seg_vars, pipe_vars>>

ExtAgentPass       == (\E i \in DOMAIN ext_state : AgentPass(i)) /\ UNCHANGED NotExt
ExtStructuredCall  == (\E i \in DOMAIN ext_state : StructuredCall(i)) /\ UNCHANGED NotExt
ExtAgentTool       == (\E i \in DOMAIN ext_state : AgentCallsChunkTool(i)) /\ UNCHANGED NotExt
ExtToolChunk       == (\E i \in DOMAIN ext_state : ToolChunkFinish(i)) /\ UNCHANGED NotExt
ExtToolReturn      == (\E i \in DOMAIN ext_state : ToolReturn(i)) /\ UNCHANGED NotExt

NextExt ==
    \/ CallProcessSegment
    \/ ExtAgentPass
    \/ ExtAgentTool
    \/ ExtToolChunk
    \/ ExtToolReturn
    \/ ExtStructuredCall

SpecExt == InitExt /\ [][NextExt]_vars

\* text_splitter called on its own
SplitChars == {"a", "#", " ", "\n", "."}

Contents == UNION {[1..k -> SplitChars] : k \in 0..MaxContent}

\* the values of max_tokens tried: none, one, the overlap's worth, the number
\* of tokens the filler stands for, and the default
MaxTokensInputs == {0, 1, CHUNK_OVERLAP \div 4, BlockWidth \div 4, DEFAULT_MAX_TOKENS}

InitSplit ==
    /\ transcript = Unavailable
    /\ InitCommon /\ JobsIdle
    /\ split_content \in Contents
    /\ split_max_tokens \in MaxTokensInputs
    /\ split_result = NoValue
    /\ chunks = <<>>
    /\ ChunksIdle
    /\ SaverIdle

NextSplit == CallTextSplitter

SpecSplit == InitSplit /\ [][NextSplit]_vars

\* process_chunks_parallel called on its own
ChunkTexts == {<<"a">>, <<"a", " ", "#">>}

ChunkLists == UNION {[1..k -> ChunkTexts] : k \in 0..MaxChunks}

InitChunks ==
    /\ transcript = Unavailable
    /\ InitCommon /\ JobsIdle
    /\ split_content = <<>>
    /\ split_max_tokens = DEFAULT_MAX_TOKENS
    /\ split_result = NoValue
    /\ chunks \in ChunkLists
    /\ ChunksIdle
    /\ SaverIdle

NotChunks == <<transcript, seg_received, split_vars, saver_vars, job_vars, seg_vars, ext_vars,
              pipe_vars>>

ChunksCall     == CallProcessChunks /\ UNCHANGED NotChunks
ChunkStarter   == (\E i \in DOMAIN chunk_state : ChunkStart(i)) /\ UNCHANGED NotChunks
ChunkWorker    == (\E i \in DOMAIN chunk_state : ChunkFinish(i)) /\ UNCHANGED NotChunks
ChunkCollector == (\E i \in DOMAIN chunk_state : ChunkCollect(i)) /\ UNCHANGED NotChunks
ChunksSingle   == SingleChunkReturn /\ UNCHANGED NotChunks
ChunksMerge    == ChunksReturn /\ UNCHANGED NotChunks

NextChunks ==
    \/ ChunksCall
    \/ ChunkStarter
    \/ ChunkWorker
    \/ ChunkCollector
    \/ ChunksSingle
    \/ ChunksMerge

SpecChunks == InitChunks /\ [][NextChunks]_vars

\* extract_structured_insights called on its own
SampleAnalyses ==
    {LLMAnalysis([segment_number |-> 1], 1),
     LLMAnalysis([segment_number |-> 2], 2),
     Fallback(2, LLMError)}

AnalysisLists == UNION {[1..k -> SampleAnalyses] : k \in 0..MaxSaved}

\* results holding a MultiSegmentAnalysis (its total_segments is a field of
\* its own), holding a dictionary, and of the old text format
InsightResults ==
    {[structured_analysis |-> [segments |-> l, total_segments |-> t],
      success |-> TRUE,
      total_segments_processed |-> Len(l),
      processing_method |-> "structured_parallel"] :
            l \in AnalysisLists, t \in 0..MaxSaved}
    \cup {[structured_analysis |-> [dict |-> d]] :
            d \in {[segments |-> <<>>], [total_segments |-> 1]}}
    \cup {[output |-> "text"], [success |-> FALSE]}

InitInsights ==
    /\ transcript = Unavailable
    /\ InitCommon /\ JobsIdle
    /\ ToolsIdle
    /\ insight_result \in InsightResults
    /\ structured_insights = NoValue

NextInsights == CallExtractStructuredInsights

SpecInsights == InitInsights /\ [][NextInsights]_vars

\* a pipeline run
Init == transcript \in Transcripts \cup {Unavailable} /\ InitCommon /\ JobsIdle /\ ToolsIdle /\ SaverIdle

ExtStarter   == (\E i \in DOMAIN ext_state : ExtractStart(i))
                    /\ UNCHANGED <<env_vars, seg_vars, pipe_vars>>
ExtCollector == (\E i \in DOMAIN ext_state : Collect(i))
                    /\ UNCHANGED <<env_vars, seg_vars, pc, entry, intermediate_steps, agent_1_result,
                                   segments_data, structured_result, saved, ret>>

Next ==
    \/ CallRunCompletePipeline
    \/ AgentFetch
    \/ AgentMakeSegments
    \/ AgentToolReturn
    \/ AgentInvalidTool
    \/ AgentRaise
    \/ AgentFinish
    \/ CallToolsDirect
    \/ CallRunStructured
    \/ SegWorker
    \/ SegCollector
    \/ SegReturn
    \/ ExtStarter
    \/ ExtAgentPass
    \/ ExtStructuredCall
    \/ ExtCollector
    \/ RunStructuredFinish

Spec == Init /\ [][Next]_vars

\* a pipeline run on a video of thirty seconds with three long passages, and
\* with the agent pass of the LARGE path resolved into the agent's calls of
\* process_chunks_parallel
LoadTranscripts ==
    {Unavailable,
     [available |-> TRUE,
      snippets |-> <<[text |-> <<"#">>, start |-> 0, duration |-> 1],
                     [text |-> <<"#">>, start |-> 10, duration |-> 1],
                     [text |-> <<"#">>, start |-> 20, duration |-> 1],
                     [text |-> <<"a">>, start |-> 29, duration |-> 1]>>]}

InitLoad == transcript \in LoadTranscripts /\ InitCommon /\ JobsIdle /\ ToolsIdle /\ SaverIdle

NextLoad ==
    \/ Next
    \/ ExtAgentTool
    \/ ExtToolChunk
    \/ ExtToolReturn

SpecLoad == InitLoad /\ [][NextLoad]_vars

\* a pipeline run on a video with one long passage, in which every thread
\* that can take a step eventually takes one and every call that is waited
\* for eventually returns or raises (weak fairness of the steps of the
\* program and of the answers of the LLMs), and in which an insight agent
\* ends its run: the executor stops an agent after a fixed number of
\* iterations, so its LLM cannot go on answering with tool calls for ever
\* (strong fairness of the agent pass)
LiveTranscripts ==
    {Unavailable,
     [available |-> TRUE,
      snippets |-> <<[text |-> <<"#">>, start |-> 0, duration |-> 1],
                     [text |-> <<"a">>, start |-> 29, duration |-> 1]>>]}

InitLive == transcript \in LiveTranscripts /\ InitCommon /\ JobsIdle /\ ToolsIdle /\ SaverIdle

\* the LLM of the video-processor agent answers
VideoAgentAnswers ==
    AgentFetch \/ AgentMakeSegments \/ AgentInvalidTool \/ AgentRaise \/ AgentFinish

FairLoad ==
    /\ WF_vars(VideoAgentAnswers)
    /\ WF_vars(AgentToolReturn)
    /\ WF_vars(CallRunStructured)
    /\ WF_vars(SegWorker)
    /\ WF_vars(SegCollector)
    /\ WF_vars(SegReturn)
    /\ WF_vars(ExtStarter)
    /\ SF_vars(ExtAgentPass)
    /\ WF_vars(ExtToolChunk)
    /\ WF_vars(ExtToolReturn)
    /\ WF_vars(ExtStructuredCall)
    /\ WF_vars(ExtCollector)
    /\ WF_vars(RunStructuredFinish)

SpecLive == InitLive /\ [][NextLoad]_vars /\ FairLoad

\* the two stages that fill a pre-sized result list: a caller that either
\* calls process_chunks_parallel on a chunk list or starts a pipeline run
InitStages == InitChunks \/ InitLoad

StagesChunks   == pc = "idle" /\ NextChunks
StagesPipeline == chunks_pc = "idle" /\ NextLoad

NextStages == StagesChunks \/ StagesPipeline

SpecStages == InitStages /\ [][NextStages]_vars

\* the job server: jobs are submitted, their threads run, a client opens a
\* progress stream
InitJobs ==
    /\ transcript = Unavailable
    /\ InitCommon
    /\ ToolsIdle
    /\ SaverIdle
    /\ pipeline_module \in PipelineModules
    /\ jobs = [j \in JobIds |-> NoValue]
    /\ job_progress = [j \in JobIds |-> NoValue]
    /\ sys_stdout = OriginalStdout
    /\ capture = [j \in JobIds |-> NoValue]
    /\ worker = [j \in JobIds |-> NoJob]
    /\ stream = NoStream

NextJobs ==
    \/ \E j \in JobIds, v \in Videos : AnalyzeVideo(j, v)
    \/ \E j \in JobIds : SetProcessing(j)
    \/ \E j \in JobIds : InitProgress(j)
    \/ \E j \in JobIds : PutInitial(j)
    \/ \E j \in JobIds : CaptureInit(j)
    \/ \E j \in JobIds : CaptureEnter(j)
    \/ \E j \in JobIds : PipelineCall(j)
    \/ \E j \in JobIds : PipelinePrint(j)
    \/ \E j \in JobIds : PipelineReturn(j)
    \/ \E j \in JobIds : CaptureExit(j)
    \/ \E j \in JobIds : SetFinalStatus(j)
    \/ \E j \in JobIds : JobStoreResult(j)
    \/ \E j \in JobIds : PutTerminal(j)
    \/ \E j \in JobIds : StreamOpen(j)
    \/ StreamFound
    \/ StreamNotFound
    \/ StreamGet
    \/ StreamEmpty
    \/ StreamCheckStatus

SpecJobs == InitJobs /\ [][NextJobs]_vars

\* ---------------------------------------------------------------- claims
ValidSegInput == snippets # <<>> /\ total_duration > 0 /\ num_segments >= 1

\* C1: for every valid input, make_segments returns exactly num_segments
\* segments, with ids 1..num_segments in increasing order, segment id
\* starting at (id-1)*total_duration/num_segments and ending at
\* id*total_duration/num_segments, for every completion order of the workers.
C1_SegmentsInOrder ==
    (seg_pc = "done" /\ ValidSegInput) =>
        /\ seg_result.success
        /\ Len(seg_result.segments) = num_segments
        /\ \A k \in 1..Len(seg_result.segments) :
                /\ seg_result.segments[k].id = k
                /\ RatEq(seg_result.segments[k].start_time,
                         Rat((k - 1) * total_duration, num_segments))
                /\ RatEq(seg_result.segments[k].end_time,
                         Rat(k * total_duration, num_segments))

C1_Witness ==
    /\ seg_pc = "done"
    /\ ValidSegInput
    /\ num_segments = 3
    /\ Len(seg_result.segments) = 3
    /\ seg_result.segments[3].snippet_count > 0

\* the extraction stage has returned a MultiSegmentAnalysis
Assembled == pc = "returned" /\ structured_result # NoValue

Done(i)   == ext_state[i] \in {"finished", "collected"}
Failed(i) == ext_log[i] # <<>> /\ ext_log[i][Len(ext_log[i])].outcome # "ok"

\* C2: in the final MultiSegmentAnalysis every analysis carries the id of
\* the segment it was computed from as its segment_number.
C2_NumberIsSegmentId ==
    Assembled =>
        /\ \A i \in DOMAIN ext_result :
                ~ext_result[i].raised =>
                    ext_result[i].value.segment_number = segments_data[i].id
        /\ \A k \in 1..Len(structured_result.segments) :
                \E i \in DOMAIN ext_result :
                    /\ ~ext_result[i].raised
                    /\ structured_result.segments[k] = ext_result[i].value
                    /\ ext_arg[i].segment_data = segments_data[i]

C2_Witness ==
    /\ Assembled
    /\ Len(structured_result.segments) >= 3
    /\ \E i \in DOMAIN ext_state : ~Failed(i)
    /\ \E i \in DOMAIN ext_state : Failed(i)

\* C3: the final MultiSegmentAnalysis holds exactly one analysis for each
\* input segment, also when extractions fail.
C3_OnePerSegment ==
    Assembled =>
        /\ Len(structured_result.segments) = Len(segments_data)
        /\ \A i \in 1..Len(segments_data) :
                Cardinality({k \in 1..Len(structured_result.segments) :
                    structured_result.segments[k].segment_number = segments_data[i].id}) = 1

C3_Witness ==
    /\ Assembled
    /\ Len(segments_data) >= 2
    /\ \A i \in DOMAIN ext_state : Failed(i)

\* C4: slot i of the result list only ever holds the analysis computed from
\* input segment i, and the final list is the slots in input order, with
\* ascending segment_number.
C4_InputOrder ==
    /\ \A i \in DOMAIN segment_analyses :
            segment_analyses[i] # None =>
                /\ Done(i)
                /\ ~ext_result[i].raised
                /\ segment_analyses[i] = ext_result[i].value
                /\ ext_arg[i].segment_data = segments_data[i]
    /\ Assembled =>
            /\ \A k \in 1..Len(structured_result.segments) :
                    /\ k \in DOMAIN ext_result
                    /\ structured_result.segments[k] = ext_result[k].value
            /\ \A k \in 1..(Len(structured_result.segments) - 1) :
                    structured_result.segments[k].segment_number
                        < structured_result.segments[k + 1].segment_number

\* a later segment's analysis is stored while an earlier one is still running
C4_Witness ==
    /\ pc = "extract"
    /\ Len(segments_data) >= 3
    /\ segment_analyses[3] # None
    /\ Running(ext_state[1])
    /\ segment_analyses[2] = None

ErrorText(call) == IF call.kind = "agent" THEN AgentError ELSE LLMError

\* C5: process_segment_with_structured_output never raises; when the agent
\* pass or an LLM call fails it returns the fallback analysis: a name ending
\* in "(Processing Error)", the error text in the summary, and the single
\* insight "Processing error occurred".
C5_FallbackOnFailure ==
    \A i \in DOMAIN ext_state :
        Done(i) =>
            /\ ~ext_result[i].raised
            /\ Failed(i) =>
                LET v == ext_result[i].value
                IN  /\ v.segment_name[Len(v.segment_name)] = "(Processing Error)"
                    /\ v.summary[Len(v.summary)] = ErrorText(ext_log[i][Len(ext_log[i])])
                    /\ v.key_insights = <<"Processing error occurred">>

C5_Witness ==
    \E i \in DOMAIN ext_state :
        /\ Done(i)
        /\ Len(ext_log[i]) = 2
        /\ ext_log[i][2].outcome = "raise"
        /\ ~ext_result[i].raised

\* C6: the analysis returned by process_segment_with_structured_output has
\* the caller's segment number, on the SMALL path, on the LARGE path and in
\* the fallback, whatever number the model answered.
C6_NumberIsCallersNumber ==
    \A i \in DOMAIN ext_state :
        Done(i) =>
            /\ ~ext_result[i].raised
            /\ ext_result[i].value.segment_number = ext_arg[i].segment_number

C6_Witness ==
    \E i \in DOMAIN ext_state :
        /\ Done(i)
        /\ ext_arg[i].segment_number = 7
        /\ Len(ext_log[i]) = 2
        /\ ~Failed(i)

\* what the video-processor agent run achieved
FetchOk ==
    \E k \in 1..Len(intermediate_steps) :
        /\ intermediate_steps[k].tool = "get_video_transcript"
        /\ intermediate_steps[k].observation.success

SegOk ==
    \E k \in 1..Len(intermediate_steps) :
        /\ intermediate_steps[k].tool = "make_segments"
        /\ intermediate_steps[k].observation.success
        /\ Len(intermediate_steps[k].observation.segments) >= 1

CompleteReturned == pc = "returned" /\ entry = "run_complete_pipeline"

\* C7: when fetch and segmentation succeed with at least one segment (and
\* the video-processor agent run returns), run_complete_pipeline returns a
\* result holding a MultiSegmentAnalysis.
C7_ResultWhenSegmented ==
    (CompleteReturned /\ agent_1_result # None /\ FetchOk /\ SegOk) =>
        /\ ret # None
        /\ structured_result # NoValue

\* C8: when the fetch fails, the segmentation fails or no segment is
\* produced, run_complete_pipeline returns null, starts no segment
\* extraction and invokes neither persistence operation.
C8_NullWithoutSegments ==
    (CompleteReturned /\ ~(FetchOk /\ SegOk)) =>
        /\ ret = None
        /\ ext_state = <<>>
        /\ structured_result = NoValue
        /\ saved = <<>>

C8_Witness ==
    /\ CompleteReturned
    /\ Len(intermediate_steps) = 2
    /\ intermediate_steps[1].tool = "get_video_transcript"
    /\ ~intermediate_steps[1].observation.success
    /\ intermediate_steps[2].tool = "make_segments"
    /\ ~intermediate_steps[2].observation.success
    /\ ret = None

\* a segmentation has completed successfully
Segmented ==
    \/ seg_pc = "done" /\ seg_result # NoValue /\ seg_result.success
    \/ SegOk

C10_TotalIsCount ==
    Assembled =>
        /\ structured_result.total_segments = Len(structured_result.segments)
        /\ Len(structured_result.segments) =
                Cardinality({i \in DOMAIN segment_analyses : segment_analyses[i] # None})

C10_Witness ==
    /\ Assembled
    /\ structured_result.total_segments = 4
    /\ \E i \in DOMAIN ext_state : Failed(i)

\* make_segments has returned its segments
SegDone == seg_pc = "done" /\ seg_result # NoValue /\ seg_result.success

\* snippet s overlaps window k of the call: s.start < k * total_duration /
\* num_segments and s.end > (k - 1) * total_duration / num_segments
OverlapsWindow(s, k) ==
    /\ s.start * num_segments < k * total_duration
    /\ s.end * num_segments > (k - 1) * total_duration

Occurrences(text, c) == Cardinality({p \in 1..Len(text) : text[p] = c})

\* snippet s straddles the boundary between windows k and k + 1
Straddles(s, k) ==
    /\ s.start * num_segments < k * total_duration
    /\ k * total_duration < s.end * num_segments

\* C11: segment k includes exactly the snippets with start < window end and
\* end > window start (as many snippets, and as many of each text, as
\* overlap the window); a snippet that straddles the boundary between two
\* windows is in both segments.
C11_OverlapInclusion ==
    SegDone =>
        /\ \A k \in 1..Len(seg_result.segments) :
                /\ seg_result.segments[k].snippet_count =
                        Cardinality({j \in 1..Len(snippets) : OverlapsWindow(snippets[j], k)})
                /\ \A t \in Texts :
                        Occurrences(seg_result.segments[k].content, t[1]) =
                            Cardinality({j \in 1..Len(snippets) :
                                OverlapsWindow(snippets[j], k) /\ snippets[j].text = t})
        /\ \A j \in 1..Len(snippets), k \in 1..(Len(seg_result.segments) - 1) :
                Straddles(snippets[j], k) =>
                    /\ Occurrences(seg_result.segments[k].content, snippets[j].text[1]) >= 1
                    /\ Occurrences(seg_result.segments[k + 1].content, snippets[j].text[1]) >= 1

\* a snippet straddles a boundary and is in both segments, while the other
\* snippet is in one of them only
C11_Witness ==
    /\ SegDone
    /\ Len(snippets) = 2
    /\ \E j \in 1..Len(snippets), k \in 1..(num_segments - 1) :
            /\ Straddles(snippets[j], k)
            /\ seg_result.segments[k].snippet_count = 1
            /\ seg_result.segments[k + 1].snippet_count = 2

\* the texts of the snippets overlapping window k, in input order, each but
\* the first preceded by one space
RECURSIVE Spaced(_)
Spaced(list) ==
    IF list = <<>> THEN <<>>
    ELSE Spaced(SubSeq(list, 1, Len(list) - 1))
            \o (IF Len(list) = 1 THEN <<>> ELSE <<" ">>) \o list[Len(list)]

IncludedTexts(k) ==
    LET idx == {j \in 1..Len(snippets) : OverlapsWindow(snippets[j], k)}
        Nth(p) == CHOOSE j \in idx : Cardinality({i \in idx : i < j}) = p - 1
    IN  [p \in 1..Cardinality(idx) |-> snippets[Nth(p)].text]

\* C12: a segment's content is the texts of its snippets in input order
\* joined by single spaces, snippet_count is their number, character_count
\* is len(content) and estimated_tokens is floor(character_count / 4).
C12_ContentAndCounts ==
    SegDone =>
        \A k \in 1..Len(seg_result.segments) :
            LET seg == seg_result.segments[k]
            IN  /\ seg.content = Spaced(IncludedTexts(k))
                /\ seg.snippet_count = Len(IncludedTexts(k))
                /\ seg.character_count =
                        Occurrences(seg.content, "#") * BlockWidth
                            + (Len(seg.content) - Occurrences(seg.content, "#"))
                /\ 4 * seg.estimated_tokens <= seg.character_count
                /\ seg.character_count < 4 * seg.estimated_tokens + 4

C12_Witness ==
    /\ SegDone
    /\ \E k \in 1..Len(seg_result.segments) :
            /\ seg_result.segments[k].snippet_count = 2
            /\ seg_result.segments[k].content = <<"a", " ", "#">>
            /\ seg_result.segments[k].estimated_tokens = (BlockWidth + 2) \div 4

\* C13: two calls of make_segments with the same arguments return the same
\* segment list (order, content and metadata of every segment), whatever the
\* completion orders of the workers in the two calls.
C13_SameInputSameSegments ==
    Len(seg_received) = 2 =>
        /\ seg_received[1].success = seg_received[2].success
        /\ seg_received[1].segments = seg_received[2].segments

C13_Witness ==
    /\ Len(seg_received) = 2
    /\ seg_received[2].success
    /\ Len(seg_received[2].segments) = 3
    /\ seg_received[2].segments[2].snippet_count = 2

\* the arguments of the call that violate a precondition
OffendingFields ==
    (IF snippets = <<>> THEN {"transcript_snippets"} ELSE {})
        \cup (IF total_duration <= 0 THEN {"total_duration"} ELSE {})
        \cup (IF num_segments < 1 THEN {"num_segments"} ELSE {})

\* the arguments an error text of make_segments names; the ValueError text
\* names max_workers, the pool parameter num_segments is passed as, and is
\* counted as naming num_segments
FieldsNamed(error) ==
    CASE error = "No transcript snippets provided" -> {"transcript_snippets"}
      [] error = "total_duration must be a positive number" -> {"total_duration"}
      [] error = "Failed to create segments: max_workers must be greater than 0" -> {"num_segments"}
      [] OTHER -> {}

\* C14: with empty snippets, total_duration <= 0 or num_segments < 1,
\* make_segments returns (does not raise) a failure with no segments and
\* total_segments = 0, whose error describes an offending argument, and no
\* segment is created.
C14_ValidationFailure ==
    (seg_pc = "done" /\ ~ValidSegInput) =>
        /\ ~seg_result.success
        /\ seg_result.segments = <<>>
        /\ seg_result.total_segments = 0
        /\ segments = <<>>
        /\ seg_task = <<>>
        /\ FieldsNamed(seg_result.error) \cap OffendingFields # {}

\* text_splitter has returned
SplitDone == split_result # NoValue

\* len(text), counted from the characters of the text
ContentLen(text) ==
    Occurrences(text, "#") * BlockWidth + (Len(text) - Occurrences(text, "#"))

NonBlank(text) == \E p \in 1..Len(text) : text[p] \notin {" ", "\n"}

\* C15: a non-blank content with len(content) <= max_tokens * 4 comes back
\* as exactly one chunk, the content itself, with needs_splitting = false.
C15_OneChunkWhenItFits ==
    (SplitDone /\ NonBlank(split_content)
        /\ ContentLen(split_content) <= split_max_tokens * 4) =>
            /\ split_result.success
            /\ split_result.needs_splitting = FALSE
            /\ split_result.chunks = <<split_content>>
            /\ split_result.total_chunks = 1

\* the content is exactly max_tokens * 4 characters long
C15_Witness ==
    /\ SplitDone
    /\ NonBlank(split_content)
    /\ ContentLen(split_content) = split_max_tokens * 4
    /\ split_result.chunks = <<split_content>>

\* C16: when the content is longer than max_chars = max_tokens * 4, every
\* chunk text_splitter returns is at most max_chars long.
C16_ChunksWithinMaxChars ==
    (SplitDone /\ ContentLen(split_content) > split_max_tokens * 4) =>
        \A k \in 1..Len(split_result.chunks) :
            ContentLen(split_result.chunks[k]) <= split_max_tokens * 4

\* the overlap of two consecutive chunks: the longest end of the first, of
\* at most 1000 characters, that the second starts with
OverlapOf(c1, c2) ==
    LET shared == {n \in 0..Len(c1) :
                        /\ n <= Len(c2)
                        /\ SubSeq(c1, Len(c1) - n + 1, Len(c1)) = SubSeq(c2, 1, n)
                        /\ ContentLen(SubSeq(c2, 1, n)) <= 1000}
        longest == CHOOSE n \in shared : \A m \in shared : m <= n
    IN  ContentLen(SubSeq(c2, 1, longest))

RECURSIVE ReconstructedLen(_)
ReconstructedLen(list) ==
    IF list = <<>> THEN 0
    ELSE IF Len(list) = 1 THEN ContentLen(list[1])
    ELSE ReconstructedLen(SubSeq(list, 1, Len(list) - 1))
            + ContentLen(list[Len(list)])
            - OverlapOf(list[Len(list) - 1], list[Len(list)])

\* C17: when text_splitter splits a content, its chunks concatenated in
\* order, with the overlap of consecutive chunks removed, are at least as
\* long as the content.
C17_NoCharacterLost ==
    (SplitDone /\ split_result.success /\ split_result.needs_splitting) =>
        ReconstructedLen(split_result.chunks) >= ContentLen(split_content)

\* C18: an empty or whitespace-only content makes text_splitter fail
\* (success = false, no chunks, total_chunks = 0, no needs_splitting field)
\* for every max_tokens, never the one-chunk result.
C18_BlankContentFails ==
    (SplitDone /\ ~NonBlank(split_content)) =>
        /\ ~split_result.success
        /\ split_result.chunks = <<>>
        /\ split_result.total_chunks = 0
        /\ "needs_splitting" \notin DOMAIN split_result

\* whitespace that would fit in one chunk
C18_Witness ==
    /\ SplitDone
    /\ Len(split_content) >= 2
    /\ ~NonBlank(split_content)
    /\ ContentLen(split_content) <= split_max_tokens * 4
    /\ ~split_result.success

\* process_chunks_parallel has returned
ChunksDone == chunks_pc = "done" /\ chunks_result # NoValue

\* C19: for every non-empty list of chunks the result of
\* process_chunks_parallel has at most 10 combined_insights, at most 5
\* notable_quotes and at most 7 actionable_takeaways.
C19_CapsForEveryList ==
    (ChunksDone /\ chunks # <<>>) =>
        /\ Len(chunks_result.combined_insights) <= 10
        /\ Len(chunks_result.notable_quotes) <= 5
        /\ Len(chunks_result.actionable_takeaways) <= 7

\* what the workers returned, read in ascending chunk index: the insights of
\* the successful chunks one after the other, and their summaries with one
\* space between neighbours
ChunkOk(i) == chunk_future[i].success

RECURSIVE InsightsUpTo(_)
InsightsUpTo(n) ==
    IF n = 0 THEN <<>>
    ELSE InsightsUpTo(n - 1) \o (IF ChunkOk(n) THEN chunk_future[n].insights ELSE <<>>)

RECURSIVE SummariesUpTo(_)
SummariesUpTo(n) ==
    IF n = 0 THEN <<>>
    ELSE IF ~ChunkOk(n) THEN SummariesUpTo(n - 1)
    ELSE IF \A i \in 1..(n - 1) : ~ChunkOk(i) THEN chunk_future[n].summary
    ELSE SummariesUpTo(n - 1) \o <<" ">> \o chunk_future[n].summary

\* C20: with more than one chunk, combined_insights is the first 10 of the
\* successful chunks' insights concatenated in ascending chunk index and
\* combined_summary is their summaries joined by spaces in ascending chunk
\* index, for every completion order of the chunk workers.
C20_MergeInChunkOrder ==
    (ChunksDone /\ Len(chunks) > 1) =>
        /\ chunks_result.combined_insights =
                SubSeq(InsightsUpTo(Len(chunks)), 1,
                       IF Len(InsightsUpTo(Len(chunks))) < 10
                       THEN Len(InsightsUpTo(Len(chunks))) ELSE 10)
        /\ chunks_result.combined_summary = SummariesUpTo(Len(chunks))

\* three chunks, the second failed, the insights of the third cut off
C20_Witness ==
    /\ ChunksDone
    /\ Len(chunks) = 3
    /\ ChunkOk(1) /\ ~ChunkOk(2) /\ ChunkOk(3)
    /\ Len(chunk_future[1].insights) = 2
    /\ Len(chunk_future[3].insights) > 10
    /\ Len(chunks_result.combined_insights) = 10
    /\ chunks_result.combined_insights[3].chunk = 3
    /\ chunks_result.combined_summary = <<"s", "1", " ", "s", "3">>

ChunkFailed(i) == chunk_future[i] # NoValue /\ ~chunk_future[i].success

ItemsOfChunk(list, i) == {p \in 1..Len(list) : list[p].chunk = i}

\* C21: when the extraction of some chunks fails, process_chunks_parallel
\* still returns success = true; a failed chunk contributes no insight,
\* quote, takeaway or summary (not even an empty one), and every other chunk
\* is processed and merged.
C21_FailedChunksContributeNothing ==
    (ChunksDone /\ chunks # <<>>) =>
        /\ chunks_result.success
        /\ \A i \in 1..Len(chunks) :
                /\ chunk_future[i] # NoValue
                /\ ChunkFailed(i) =>
                        /\ ItemsOfChunk(chunks_result.combined_insights, i) = {}
                        /\ ItemsOfChunk(chunks_result.notable_quotes, i) = {}
                        /\ ItemsOfChunk(chunks_result.actionable_takeaways, i) = {}
                        /\ Occurrences(chunks_result.combined_summary, Digits[i]) = 0
                /\ (ChunkOk(i) /\ Len(chunks) > 1) =>
                        Occurrences(chunks_result.combined_summary, Digits[i]) = 1
        /\ LET good == Cardinality({i \in 1..Len(chunks) : ChunkOk(i)})
           IN  Occurrences(chunks_result.combined_summary, " ")
                    = IF good = 0 THEN 0 ELSE good - 1

\* the second of three chunks failed, the other two are in the result
C21_Witness ==
    /\ ChunksDone
    /\ Len(chunks) = 3
    /\ ChunkOk(1) /\ ChunkFailed(2) /\ ChunkOk(3)
    /\ chunks_result.success
    /\ ItemsOfChunk(chunks_result.combined_insights, 1) # {}
    /\ ItemsOfChunk(chunks_result.combined_insights, 3) # {}

Called(i) == ext_arg[i] # NoValue

EstimatedTokens(i) == Get(ext_arg[i].segment_data, "estimated_tokens", 0)

KindsLogged(i) == {ext_log[i][p].kind : p \in 1..Len(ext_log[i])}

\* C27: a segment with estimated_tokens > 40000 takes the LARGE path (its
\* first LLM call is the agent's) and every other segment, the one of
\* exactly 40000 included, the SMALL path, on which exactly one
\* structured-extraction call is made and no agent call or chunk call.
C27_PathByThreshold ==
    \A i \in DOMAIN ext_state :
        Called(i) =>
            IF EstimatedTokens(i) > 40000
            THEN /\ ext_state[i] # "small"
                 /\ ext_log[i] # <<>> => ext_log[i][1].kind = "agent"
                 /\ Done(i) => ext_log[i] # <<>>
            ELSE /\ ext_state[i] \notin {"agent", "tool", "structured"}
                 /\ ext_tool[i] = NoTool
                 /\ KindsLogged(i) \subseteq {"structured"}
                 /\ Len(ext_log[i]) = (IF Done(i) THEN 1 ELSE 0)

\* a segment of exactly 40000 estimated tokens finished on the SMALL path
C27_Witness ==
    \E i \in DOMAIN ext_state :
        /\ Called(i)
        /\ EstimatedTokens(i) = 40000
        /\ Done(i)
        /\ ext_log[i] = <<[kind |-> "structured", outcome |-> "ok"]>>

\* C28: on the LARGE path the structured-extraction call starts only when
\* the agent pass, its tool calls included, has completed; a successful
\* agent pass is followed by exactly one structured-extraction call; after
\* a failed agent pass no structured-extraction call is made and the
\* fallback analysis is what is returned.
C28_AgentThenStructured ==
    \A i \in DOMAIN ext_state :
        (Called(i) /\ EstimatedTokens(i) > 40000) =>
            /\ ext_state[i] \in {"agent", "tool"} => ext_log[i] = <<>>
            /\ ext_state[i] = "structured" =>
                    /\ ext_log[i] = <<[kind |-> "agent", outcome |-> "ok"]>>
                    /\ ext_tool[i] = NoTool
            /\ Done(i) =>
                    /\ ext_tool[i] = NoTool
                    /\ ext_log[i][1].kind = "agent"
                    /\ IF ext_log[i][1].outcome = "ok"
                       THEN /\ Len(ext_log[i]) = 2
                            /\ ext_log[i][2].kind = "structured"
                       ELSE /\ Len(ext_log[i]) = 1
                            /\ ext_result[i] =
                                    Returned(Fallback(ext_arg[i].segment_number, AgentError))

\* a failed agent pass ended the call with the fallback, and nothing else
C28_Witness ==
    \E i \in DOMAIN ext_state :
        /\ Called(i)
        /\ EstimatedTokens(i) > 40000
        /\ Done(i)
        /\ ext_log[i] = <<[kind |-> "agent", outcome |-> "raise"]>>
        /\ ext_result[i] = Returned(Fallback(ext_arg[i].segment_number, AgentError))

\* the LLM calls one segment extraction is waiting for
SegmentLLMCalls(i) ==
    IF ext_state[i] \in {"small", "agent", "structured"} THEN 1
    ELSE IF ext_state[i] = "tool" THEN ChunkCallsInProgress(ext_tool[i])
    ELSE 0

RECURSIVE SumLLMCalls(_)
SumLLMCalls(n) == IF n = 0 THEN 0 ELSE SegmentLLMCalls(n) + SumLLMCalls(n - 1)

\* the LLM calls outstanding in a pipeline run: the video-processor agent
\* waits for its LLM between its tool calls
LLMCallsOutstanding ==
    (IF pc = "agent1" THEN 1 ELSE 0) + SumLLMCalls(Len(ext_state))

ExtractionsInProgress == {i \in DOMAIN ext_state : Running(ext_state[i])}

\* C23: at no time are more than min(chunk_count, 5) chunk extraction calls
\* of one process_chunks_parallel invocation in progress, and at no time are
\* more than min(segment_count, 3) segment extractions of a pipeline run in
\* progress.
C23_PoolCaps ==
    /\ \A i \in DOMAIN ext_state :
            ext_state[i] = "tool" =>
                /\ ChunkCallsInProgress(ext_tool[i]) <= ext_tool[i].chunks
                /\ ChunkCallsInProgress(ext_tool[i]) <= 5
    /\ Cardinality(ExtractionsInProgress) <= Len(segments_data)
    /\ Cardinality(ExtractionsInProgress) <= 3

\* both caps bind: five of more than five chunk calls are in progress in one segment
\* extraction while three of four segment extractions are in progress
C23_Witness ==
    /\ Len(segments_data) = 4
    /\ Cardinality(ExtractionsInProgress) = 3
    /\ ext_state[4] = "queued"
    /\ \E i \in DOMAIN ext_state :
            /\ ext_state[i] = "tool"
            /\ ext_tool[i].chunks > 5
            /\ ChunkCallsInProgress(ext_tool[i]) = 5

\* C24: during a pipeline run at most 15 LLM calls are outstanding at the
\* same time: a chunk pool exists only inside a segment extraction in
\* progress, and no segment extraction is in progress before segmentation
\* has finished.
C24_AtMostFifteenLLMCalls ==
    /\ LLMCallsOutstanding <= 15
    /\ \A i \in DOMAIN ext_state :
            ext_tool[i] # NoTool => i \in ExtractionsInProgress
    /\ ExtractionsInProgress # {} =>
            /\ pc = "extract"
            /\ seg_pc \in {"idle", "done"}
            /\ seg_task = <<>>

\* three segment extractions with five chunk calls each
C24_Witness ==
    /\ LLMCallsOutstanding = 15
    /\ Cardinality({i \in DOMAIN ext_state : ext_state[i] = "tool"}) = 3

HoldsMultiSegmentAnalysis(result) ==
    /\ "structured_analysis" \in DOMAIN result
    /\ DOMAIN result.structured_analysis = {"segments", "total_segments"}

\* C29: extract_structured_insights applied to a result holding a
\* MultiSegmentAnalysis returns format "structured", the total_segments of
\* the MultiSegmentAnalysis, and one entry per segment analysis, in the same
\* order, with the same segment_number, segment_name, summary, key_insights
\* and actionable_takeaways.
C29_StructuredInsights ==
    (structured_insights # NoValue /\ HoldsMultiSegmentAnalysis(insight_result)) =>
        LET msa == insight_result.structured_analysis
            out == structured_insights
        IN  /\ out.format = "structured"
            /\ out.total_segments = msa.total_segments
            /\ Len(out.segments) = Len(msa.segments)
            /\ \A k \in 1..Len(msa.segments) :
                    /\ out.segments[k].segment_number = msa.segments[k].segment_number
                    /\ out.segments[k].segment_name = msa.segments[k].segment_name
                    /\ out.segments[k].summary = msa.segments[k].summary
                    /\ out.segments[k].key_insights = msa.segments[k].key_insights
                    /\ out.segments[k].actionable_takeaways
                            = msa.segments[k].actionable_takeaways

\* three analyses of which the first and the last differ, and a
\* total_segments that is not their number
C29_Witness ==
    /\ structured_insights # NoValue
    /\ HoldsMultiSegmentAnalysis(insight_result)
    /\ Len(insight_result.structured_analysis.segments) = 3
    /\ insight_result.structured_analysis.segments[1]
            # insight_result.structured_analysis.segments[3]
    /\ insight_result.structured_analysis.total_segments = 2
    /\ structured_insights.total_segments = 2
    /\ Len(structured_insights.segments) = 3

\* what process_single_chunk returns for chunk i carries the number of
\* chunk i and is computed from its text
FromChunk(r, i) ==
    IF r.success
    THEN /\ r.chunk_number = i
         /\ r.word_count = WordCount(chunks[i])
         /\ \A k \in 1..Len(r.insights) : r.insights[k].chunk = i
    ELSE r.error = <<"Failed to process chunk", i>>

\* a step that changes slot i of list writes it for the first time, with
\* value, and changes no other slot
WritesOnly(list, list_after, i, value) ==
    /\ list[i] = None
    /\ list_after[i] = value
    /\ \A j \in DOMAIN list : j # i => list_after[j] = list[j]

ChunkSlotStep ==
    IF DOMAIN chunk_results' # DOMAIN chunk_results
    THEN \A i \in DOMAIN chunk_results' : chunk_results'[i] = None
    ELSE \A i \in DOMAIN chunk_results :
            /\ chunk_results'[i] # chunk_results[i] =>
                    /\ chunk_state[i] = "done"
                    /\ WritesOnly(chunk_results, chunk_results', i, chunk_future[i])
                    /\ FromChunk(chunk_future[i], i)
            /\ chunk_future'[i] # chunk_future[i] =>
                    /\ chunk_state[i] = "running"
                    /\ chunk_future[i] = NoValue
                    /\ \A j \in DOMAIN chunk_future :
                            j # i => chunk_future'[j] = chunk_future[j]

SegmentSlotStep ==
    IF DOMAIN segment_analyses' # DOMAIN segment_analyses
    THEN \A i \in DOMAIN segment_analyses' : segment_analyses'[i] = None
    ELSE \A i \in DOMAIN segment_analyses :
            /\ segment_analyses'[i] # segment_analyses[i] =>
                    /\ ext_state[i] = "finished"
                    /\ WritesOnly(segment_analyses, segment_analyses', i, ext_result[i].value)
                    /\ ext_arg[i].segment_data = segments_data[i]
                    /\ ext_result[i].value.segment_number = i
            /\ ext_result'[i] # ext_result[i] =>
                    /\ Running(ext_state[i])
                    /\ ext_result[i] = NoValue
                    /\ \A j \in DOMAIN ext_result :
                            j # i => ext_result'[j] = ext_result[j]
            /\ ext_arg'[i] # ext_arg[i] =>
                    /\ ext_arg[i] = NoValue
                    /\ ext_arg'[i].segment_data = segments_data[i]

\* C25: in chunk processing and in segment extraction every step that
\* changes result slot i writes it for the first time, with the result
\* computed from input i, and changes no other slot; a task's own result is
\* set once, by a step of that task, and a task is handed input i only.
C25_OwnSlotOnly == [][ChunkSlotStep /\ SegmentSlotStep]_vars

\* the result of the third chunk is in its slot while the first chunk is
\* still with its worker and the second has failed
C25_Witness ==
    /\ chunks_pc = "pool"
    /\ Len(chunks) = 3
    /\ chunk_state[1] = "running"
    /\ chunk_results[1] = None
    /\ chunk_results[2] # None /\ ~chunk_results[2].success
    /\ chunk_results[3] # None /\ chunk_results[3] = chunk_future[3]

\* the segment lists make_segments returned to the video-processor agent
SegmenterOutputs ==
    {intermediate_steps[k].observation.segments :
        k \in {j \in 1..Len(intermediate_steps) :
                    /\ intermediate_steps[j].tool = "make_segments"
                    /\ intermediate_steps[j].observation.success}}

\* C26: segments are not modified after segmentation: the segments handed
\* to the extraction stage stay equal to the segmenter's output, and when
\* run_complete_pipeline has returned after a successful segmentation, the
\* segments_data held in its result equals the segmenter's output.
C26_SegmentsUnmodified ==
    /\ (entry = "run_structured_insight_extraction_pipeline" /\ pc \in {"extract", "returned"}) =>
            segments_data = seg_result.segments
    /\ (CompleteReturned /\ agent_1_result # None /\ SegOk) =>
            /\ ret # None
            /\ ret.segments_data \in SegmenterOutputs

\* the part of C26 about the extraction stage called on the segmenter's output
C26_DirectFrame ==
    (entry = "run_structured_insight_extraction_pipeline" /\ pc \in {"extract", "returned"}) =>
        /\ segments_data = seg_result.segments
        /\ \A i \in DOMAIN ext_arg :
                Called(i) => ext_arg[i].segment_data = seg_result.segments[i]

\* C30: if every transcript fetch and every LLM call eventually returns or
\* raises, a pipeline run that has started eventually returns, a result or
\* null: no worker pool of segmentation, segment extraction or chunk
\* processing is left waiting for ever.
C30_RunReturns == (pc # "idle") ~> (pc = "returned" /\ ret # NoValue)

\* a run over four segments, one of them through the agent, has returned
\* its result
C30_Witness ==
    /\ pc = "returned"
    /\ Len(segments_data) = 4
    /\ ret # None
    /\ \E i \in DOMAIN ext_log : ext_log[i] = <<[kind |-> "agent", outcome |-> "ok"],
                                                [kind |-> "structured", outcome |-> "ok"]>>

\* text_splitter's answer is the one-chunk one
ReportsNoSplit ==
    /\ "needs_splitting" \in DOMAIN split_result
    /\ split_result.needs_splitting = FALSE

\* C31 as stated: text_splitter reports needs_splitting = false exactly
\* when floor(len(content) / 4) <= max_tokens.
C31_AgreesWithTokenEstimate ==
    (SplitDone /\ NonBlank(split_content)) =>
        (ReportsNoSplit <=> ContentLen(split_content) \div 4 <= split_max_tokens)

\* C31: for a non-blank content text_splitter reports needs_splitting =
\* false exactly when len(content) <= max_tokens * 4; floor(len(content) / 4)
\* <= max_tokens then holds, and the estimated_tokens field is that floor.
C31_SplitDecisionByChars ==
    (SplitDone /\ NonBlank(split_content)) =>
        /\ ReportsNoSplit <=> ContentLen(split_content) <= split_max_tokens * 4
        /\ ReportsNoSplit =>
                /\ ContentLen(split_content) \div 4 <= split_max_tokens
                /\ split_result.estimated_tokens = ContentLen(split_content) \div 4

\* a content one to three characters longer than max_tokens * 4, whose token
\* estimate is max_tokens, is split
C31_Witness ==
    /\ SplitDone
    /\ NonBlank(split_content)
    /\ ContentLen(split_content) > split_max_tokens * 4
    /\ ContentLen(split_content) \div 4 = split_max_tokens
    /\ split_result.success
    /\ split_result.needs_splitting
    /\ split_result.estimated_tokens = split_max_tokens

\* the snippets of the input with text t among those selected by Sel(_)
SnippetsWith(t, Sel(_)) ==
    {j \in 1..Len(snippets) : snippets[j].text = t /\ Sel(snippets[j])}

\* how many times the segments returned hold a snippet of text t
RECURSIVE TimesIncluded(_, _)
TimesIncluded(list, t) ==
    IF list = <<>> THEN 0
    ELSE Occurrences(Head(list).content, t[1]) + TimesIncluded(Tail(list), t)

StartsInside(s) == 0 <= s.start /\ s.start < total_duration

\* C32: every input snippet whose start lies in [0, total_duration) is in
\* at least one of the segments make_segments returns (so the segments hold
\* every text at least as often as such snippets carry it), snippets of
\* zero duration and snippets starting on a window boundary included.
C32_EverySnippetIncluded ==
    SegDone =>
        \A t \in Texts :
            TimesIncluded(seg_result.segments, t) >= Cardinality(SnippetsWith(t, StartsInside))

StartsInsideAndLasts(s) == StartsInside(s) /\ s.duration > 0

\* the part of C32 that holds: snippets of positive duration starting in
\* [0, total_duration) are each in at least one segment
C32_LastingSnippetsIncluded ==
    SegDone =>
        \A t \in Texts :
            TimesIncluded(seg_result.segments, t) >=
                Cardinality(SnippetsWith(t, StartsInsideAndLasts))

\* C33: for every non-blank content and every max_tokens >= 1,
\* text_splitter returns success = true with at least one chunk, also when
\* max_tokens * 4 is smaller than the 1000 characters of overlap.
C33_NonBlankAlwaysSplits ==
    (SplitDone /\ NonBlank(split_content) /\ split_max_tokens >= 1) =>
        /\ split_result.success
        /\ Len(split_result.chunks) >= 1
        /\ split_result.total_chunks = Len(split_result.chunks)

\* the part of C33 that holds: the call succeeds whenever the content fits
\* in one chunk or max_tokens * 4 is at least the overlap
C33_SucceedsWhenOverlapFits ==
    (SplitDone /\ NonBlank(split_content) /\ split_max_tokens >= 1
        /\ (ContentLen(split_content) <= split_max_tokens * 4
                \/ split_max_tokens * 4 >= 1000)) =>
        /\ split_result.success
        /\ Len(split_result.chunks) >= 1
        /\ split_result.total_chunks = Len(split_result.chunks)

\* the segmenter's estimated_tokens of a segment with this content puts the
\* segment on the LARGE path
LargeContent(text) == ContentLen(text) \div 4 > LARGE_THRESHOLD

\* C34: the content of every segment on the LARGE path (estimated_tokens >
\* 40000), passed to text_splitter with the default max_tokens, comes back
\* as more than one chunk.
C34_LargeSegmentsAreSplit ==
    (SplitDone /\ split_max_tokens = DEFAULT_MAX_TOKENS /\ LargeContent(split_content)
        /\ NonBlank(split_content)) =>
            /\ split_result.success
            /\ split_result.total_chunks > 1

\* what holds instead: with the default max_tokens a content is split only
\* if it is longer than 200000 characters, 50000 tokens
C34_SplitOnlyAboveDefault ==
    (SplitDone /\ split_max_tokens = DEFAULT_MAX_TOKENS /\ split_result.success
        /\ split_result.total_chunks > 1) =>
            ContentLen(split_content) > DEFAULT_MAX_TOKENS * 4

\* the status of job j in the dictionary js
StatusIn(js, j) == IF js[j] = NoValue THEN "absent" ELSE js[j].status

\* the moves of a status that C35 allows
AllowedMoves ==
    {<<"absent", "queued">>, <<"queued", "processing">>, <<"queued", "failed">>,
     <<"processing", "completed">>, <<"processing", "failed">>}

StatusMoves ==
    \A j \in JobIds :
        StatusIn(jobs, j) # StatusIn(jobs', j) =>
            <<StatusIn(jobs, j), StatusIn(jobs', j)>> \in AllowedMoves

ResultStored(js, j) == js[j] # NoValue /\ js[j].result # NoValue

C35_StatusMoves == [][StatusMoves]_vars

\* ... and a result is stored only in a completed job, and is there once
\* the worker of a completed job has ended
C35_ResultOnlyWhenCompleted ==
    \A j \in JobIds :
        /\ ResultStored(jobs, j) => StatusIn(jobs, j) = "completed"
        /\ (worker[j].pc = "done" /\ StatusIn(jobs, j) = "completed") => ResultStored(jobs, j)

\* the worker of job j has ended
JobEnded(j) == worker[j].pc = "done"

\* C36: a job whose pipeline run produces a result ends completed with the
\* result stored, a job whose run returns null or raises ends failed, and a
\* job submitted through analyze_video for a video whose fetch, segmentation
\* and extraction all succeed ends completed.
C36_JobOutcome ==
    \A j \in JobIds :
        JobEnded(j) =>
            /\ worker[j].run = "result" =>
                    StatusIn(jobs, j) = "completed" /\ ResultStored(jobs, j)
            /\ worker[j].run \in {"null", "raise"} => StatusIn(jobs, j) = "failed"
            /\ jobs[j].video_url = "ok" => StatusIn(jobs, j) = "completed"

\* the part of C36 that holds: the final status follows the run's outcome
C36_StatusFollowsRun ==
    \A j \in JobIds :
        JobEnded(j) =>
            /\ worker[j].run = "result" =>
                    StatusIn(jobs, j) = "completed" /\ ResultStored(jobs, j)
            /\ worker[j].run \in {"null", "raise"} =>
                    StatusIn(jobs, j) = "failed" /\ ~ResultStored(jobs, j)

\* with the function of pipeline/orchestrator.py no job ever completes
C36_OrchestratorJobsFail ==
    \A j \in JobIds :
        (pipeline_module = "orchestrator" /\ JobEnded(j)) => StatusIn(jobs, j) = "failed"

\* the stream has got the queue of its job (main.py:155) and has closed
StreamClosed == stream.pc = "closed" /\ "not found" \notin stream.sent

\* C37: a progress stream opened for a job whose worker has started
\* delivers the job's message of type completion or error before it closes,
\* however the steps of the worker and of the stream interleave.
C37_TerminalMessageDelivered ==
    StreamClosed => stream.sent \cap {"completion", "error"} # {}

\* the messages in the queue of job k
QueueOf(k) == IF job_progress[k] = NoValue THEN <<>> ELSE job_progress[k].queue

C38_OwnPutsInOwnQueue ==
    \A k \in JobIds :
        \A p \in 1..Len(QueueOf(k)) :
            QueueOf(k)[p].message # "line" => QueueOf(k)[p].job = k

\* no job is between the start of its thread and the end of its worker
NoJobRunning == \A j \in JobIds : worker[j].pc \in {"none", "done"}

\* C39: once every running job has finished, sys.stdout is the original
\* stream again, in whatever order the jobs entered and left their captures.
C39_StdoutRestored == NoJobRunning => sys_stdout = OriginalStdout

\* the part of C39 that holds: a single job restores sys.stdout
C39_OneJobRestores ==
    (NoJobRunning /\ jobs[1] # NoValue /\ \A j \in JobIds \ {1} : jobs[j] = NoValue) =>
        sys_stdout = OriginalStdout

====
